---- MODULE Spec2Model ----
(***************************************************************************)
(* Download gating of the Notesbot study-material bot (src/botad.py):      *)
(* the SmartAdSystem stores (user_stats, user_tokens, user_sessions), the  *)
(* handlers that drive them (select_material, handle_free_download,        *)
(* process_download_verification, show_user_status, reset_user,            *)
(* toggle_ads) and the click tracker (src/tracker.py).                     *)
(*                                                                         *)
(* Time is time.time() in whole seconds.  One handler runs at one clock    *)
(* value; the clock moves between handlers.  SpecConc follows the handlers *)
(* from await to await, SpecPersist follows user_stats.json and restarts.  *)
(* SpecStorage follows the catalog: the upload handlers, the storage       *)
(* client (src/github_storage.py) with the local file and the repository,  *)
(* and UserTracker (src/user_tracking.py).                                 *)
(***************************************************************************)
EXTENDS Integers, Sequences, FiniteSets, TLC

\* ---------------------------------------------------------------- config.py
FREE_DOWNLOADS_ALLOWED == 2
WAIT_TIME_SECONDS == 20
TOKEN_DURATION_HOURS == 10
FREE_DOWNLOAD_RESET_HOURS == 10
ADMIN_IDS == {1}
\* upload access only; user 2 has neither role
TEAM_MEMBER_IDS == {3}

\* seconds in an hour, as written in get_user_data / grant_token
HOUR == 3600
\* cleanup_old_sessions: "> 3600  # 1 hour"
SESSION_MAX_AGE == 3600
\* reset_user: time.time() + (10 * 3600)
RESET_USER_HOURS == 10
\* random.randint(1000, 9999): lowest value drawn
RAND_LOW == 1000

\* GitHubStorage.sync_interval: "Sync at most once per minute"
sync_interval == 60
\* max_retries of GitHubStorage.load_data
max_retries_load == 3
\* a save_data that tries as often as load_data does
max_retries_save_as_load == max_retries_load
\* max_retries of GitHubStorage.save_data
max_retries_save == 2

\* Python's None for the optional timestamps (wait_start, last_ad_watch).
\* time.time() is positive, so 0 is free to stand for it; both are falsy.
None == 0

\* ------------------------------------------------------------------ bounds
\* user ids 1..NumUsers
NumUsers == 2
\* how many of the random suffixes 1000.. are drawn
NumRand == 2
\* verification sessions created in one behaviour under tokens not yet stored
MaxSessions == 1
\* further sessions created under a token that is stored, in one behaviour in
\* which user 1 alone is active
MaxOverwrites == 1
\* clock advances in one behaviour
MaxTicks == 2
\* free slots consumed in one behaviour, all users together
MaxDownloads == 2
\* free slots consumed in one behaviour in which user 1 alone is active
MaxDownloadsAlone == 3
\* /reset commands that find a record, in one behaviour
MaxResets == 1
\* "material_<i>" callbacks received in the behaviours that follow the
\* coroutines from await to await
NumTasks == 3
\* fractions of a second told apart in the elapsed time of a poll
Sub == 4
\* last clock value of the behaviours that poll one session second by second
MaxPollTime == 26
\* files one user receives from "Download Now" buttons that are counted
MaxFreeSent == 2
\* download requests of one reset window that are recorded
MaxLog == 3

\* materials of the subject the catalog holds at most
MaxMaterials == 2
\* UserTracker.track_user calls that are recorded, all users together
MaxInteractions == 2
\* time.time() when the storage client is constructed, and the clock advances
\* of one behaviour that follows the storage client
StorageStart == 100
MaxStorageWaits == 2

Users == 1..NumUsers
\* everybody who can send the bot an upload
Members == Users \cup TEAM_MEMBER_IDS
RandVals == RAND_LOW..(RAND_LOW + NumRand - 1)

VARIABLES
    materials,      \* STUDY_MATERIALS[branch][semester][subject]["materials"] of the
                    \* subject browsed: per material, whether it has a file_id
    acting,         \* the users whose updates the bot receives
    now,            \* time.time()
    ticks,          \* clock advances so far
    ad_enabled,     \* config.AD_VERIFICATION_ENABLED
    user_stats,     \* smart_ad_system.user_stats     : user id -> record
    user_tokens,    \* smart_ad_system.user_tokens    : user id -> record
    user_sessions,  \* smart_ad_system.user_sessions  : token   -> record
    ad_verification, \* ad_verification.user_sessions : token   -> record
    click_data,     \* tracker.click_data             : token   -> click time
    prompt,         \* per user: material of the "Download Now" button shown, or -1
    created,        \* verification sessions created so far
    resets,         \* /reset commands that found a record so far
    sent,           \* the file the last handled event sent, or NoFile
    free_sent,      \* history: per user, files sent by handle_free_download
    session_hist,   \* history: per stored session, time of its first
                    \* verify_ad_click and number of grant_token calls made for it
    log,            \* history: per user, the download requests select_material
                    \* decided in the user's current reset window
    disk,           \* the file user_stats.json and whether it can be written
    running,        \* the bot process is up (the module was imported without error)
    tasks,          \* the handle_button coroutines in flight, each with the
                    \* await it is suspended at and what it decided
    storage,        \* github_storage, the local file study_materials.json and
                    \* the files of the repository
    call,           \* history: the last call made to the storage client
    user_tracker,   \* user_tracker.user_stats, or NoTracker before
                    \* init_user_tracker
    user_data       \* context.user_data per user: "upload_file_id" is set

vars == <<materials, acting, now, ticks, ad_enabled, user_stats, user_tokens, user_sessions,
          click_data, prompt, created, resets, sent, free_sent, session_hist, log,
          disk, running, tasks, ad_verification, storage, call, user_tracker,
          user_data>>

\* ------------------------------------------------------------------ helpers
\* indices of the "material_<i>" buttons: enumerate(materials)
MaterialIdx == 0..(Len(materials) - 1)
\* material.get("file_id") is set
HasFileId(m) == materials[m + 1]

Put(f, k, v) == [x \in DOMAIN f \cup {k} |-> IF x = k THEN v ELSE f[x]]
Drop(f, k) == [x \in DOMAIN f \ {k} |-> f[x]]

RECURSIVE SumOver(_, _)
SumOver(f, S) ==
    IF S = {} THEN 0
    ELSE LET x == CHOOSE y \in S : TRUE IN f[x] + SumOver(f, S \ {x})

\* free slots consumed so far: total_downloads, summed over the users
Consumed(stats) == SumOver([u \in DOMAIN stats |-> stats[u].total_downloads], DOMAIN stats)

\* the three stores of one SmartAdSystem, threaded through its methods
Eng == [stats |-> user_stats, tokens |-> user_tokens, sessions |-> user_sessions]

\* ---------------------------------------------------------- SmartAdSystem
NewUserData(t) ==
    [free_downloads_used |-> 0,
     total_downloads |-> 0,
     tokens_earned |-> 0,
     last_ad_watch |-> None,
     free_downloads_reset_time |-> t + FREE_DOWNLOAD_RESET_HOURS * HOUR,
     last_reset |-> t]

get_user_data(e, u, t) ==
    IF u \notin DOMAIN e.stats
    THEN [e EXCEPT !.stats = Put(e.stats, u, NewUserData(t))]
    ELSE e

\* return value of reset_free_downloads_if_needed
reset_due(e, u, t) ==
    t >= get_user_data(e, u, t).stats[u].free_downloads_reset_time

\* reset_free_downloads_if_needed that resets only after the deadline has passed
reset_free_downloads_if_needed_late(e, u, t) ==
    LET e1 == get_user_data(e, u, t) IN
    IF t > e1.stats[u].free_downloads_reset_time
    THEN [e1 EXCEPT !.stats[u].free_downloads_used = 0,
                    !.stats[u].free_downloads_reset_time =
                        t + FREE_DOWNLOAD_RESET_HOURS * HOUR,
                    !.stats[u].last_reset = t]
    ELSE e1

\* reset_free_downloads_if_needed that leaves the deadline where it was
reset_free_downloads_if_needed_same_deadline(e, u, t) ==
    LET e1 == get_user_data(e, u, t) IN
    IF t >= e1.stats[u].free_downloads_reset_time
    THEN [e1 EXCEPT !.stats[u].free_downloads_used = 0,
                    !.stats[u].last_reset = t]
    ELSE e1

reset_free_downloads_if_needed(e, u, t) ==
    LET e1 == get_user_data(e, u, t) IN
    IF t >= e1.stats[u].free_downloads_reset_time
    THEN [e1 EXCEPT !.stats[u].free_downloads_used = 0,
                    !.stats[u].free_downloads_reset_time =
                        t + FREE_DOWNLOAD_RESET_HOURS * HOUR,
                    !.stats[u].last_reset = t]
    ELSE e1

\* has_valid_token that still accepts the token in the second it expires
has_valid_token_late(e, u, t) ==
    u \in DOMAIN e.tokens /\ t <= e.tokens[u].expires_at

\* return value of has_valid_token
has_valid_token(e, u, t) ==
    u \in DOMAIN e.tokens /\ t < e.tokens[u].expires_at

\* has_valid_token that leaves an expired entry in the store
has_valid_token_eng_keeps_expired(e, u, t) == e

\* stores after has_valid_token: an expired entry is deleted
has_valid_token_eng(e, u, t) ==
    IF u \in DOMAIN e.tokens /\ ~(t < e.tokens[u].expires_at)
    THEN [e EXCEPT !.tokens = Drop(e.tokens, u)]
    ELSE e

\* use_free_download that books the whole allowance, and one more, on one request
use_free_download_overbook(e, u, t) ==
    LET e1 == get_user_data(e, u, t) IN
    IF e1.stats[u].free_downloads_used < FREE_DOWNLOADS_ALLOWED
    THEN [e1 EXCEPT !.stats[u].free_downloads_used = @ + FREE_DOWNLOADS_ALLOWED + 1,
                    !.stats[u].total_downloads = @ + 1]
    ELSE e1

\* use_free_download that does not count the download in total_downloads
use_free_download_uncounted(e, u, t) ==
    LET e1 == get_user_data(e, u, t) IN
    IF e1.stats[u].free_downloads_used < FREE_DOWNLOADS_ALLOWED
    THEN [e1 EXCEPT !.stats[u].free_downloads_used = @ + 1]
    ELSE e1

use_free_download(e, u, t) ==
    LET e1 == get_user_data(e, u, t) IN
    IF e1.stats[u].free_downloads_used < FREE_DOWNLOADS_ALLOWED
    THEN [e1 EXCEPT !.stats[u].free_downloads_used = @ + 1,
                    !.stats[u].total_downloads = @ + 1]
    ELSE e1

\* grant_token that adds the new duration to what is left of the old token
grant_token_stacks(e, u, t) ==
    LET start == IF u \in DOMAIN e.tokens /\ e.tokens[u].expires_at > t
                 THEN e.tokens[u].expires_at
                 ELSE t
        e1 == [e EXCEPT !.tokens =
                  Put(e.tokens, u,
                      [created_at |-> t,
                       expires_at |-> start + TOKEN_DURATION_HOURS * HOUR])]
        e2 == get_user_data(e1, u, t)
    IN [e2 EXCEPT !.stats[u].tokens_earned = @ + 1,
                  !.stats[u].last_ad_watch = t]

\* return value of use_free_download: the count after the call
use_free_download_count(e, u, t) == use_free_download(e, u, t).stats[u].free_downloads_used

grant_token(e, u, t) ==
    LET e1 == [e EXCEPT !.tokens =
                  Put(e.tokens, u,
                      [created_at |-> t,
                       expires_at |-> t + TOKEN_DURATION_HOURS * HOUR])]
        e2 == get_user_data(e1, u, t)
    IN [e2 EXCEPT !.stats[u].tokens_earned = @ + 1,
                  !.stats[u].last_ad_watch = t]

\* stores after get_user_status: lazy creation, due reset, expired token purged
get_user_status_eng(e, u, t) ==
    has_valid_token_eng(reset_free_downloads_if_needed(get_user_data(e, u, t), u, t), u, t)

\* get_user_status that looks at the free quota before the token
get_user_status_free_first(e, u, t) ==
    LET e1 == reset_free_downloads_if_needed(get_user_data(e, u, t), u, t)
        free_remaining == FREE_DOWNLOADS_ALLOWED - e1.stats[u].free_downloads_used
        has_token == has_valid_token(e1, u, t)
    IN IF free_remaining > 0 THEN "free_downloads"
       ELSE IF has_token THEN "token_active"
       ELSE "needs_ad"

\* get_user_status that asks for an ad before it looks at the free quota
get_user_status_ad_first(e, u, t) ==
    LET e1 == reset_free_downloads_if_needed(get_user_data(e, u, t), u, t)
        has_token == has_valid_token(e1, u, t)
    IN IF has_token THEN "token_active"
       ELSE "needs_ad"

\* get_user_status that still offers a free download when none remains
get_user_status_one_more(e, u, t) ==
    LET e1 == reset_free_downloads_if_needed(get_user_data(e, u, t), u, t)
        free_remaining == FREE_DOWNLOADS_ALLOWED - e1.stats[u].free_downloads_used
        has_token == has_valid_token(e1, u, t)
    IN IF has_token THEN "token_active"
       ELSE IF free_remaining >= 0 THEN "free_downloads"
       ELSE "needs_ad"

\* 'status' of the dictionary get_user_status returns
get_user_status(e, u, t) ==
    LET e1 == reset_free_downloads_if_needed(get_user_data(e, u, t), u, t)
        free_remaining == FREE_DOWNLOADS_ALLOWED - e1.stats[u].free_downloads_used
        has_token == has_valid_token(e1, u, t)
    IN IF has_token THEN "token_active"
       ELSE IF free_remaining > 0 THEN "free_downloads"
       ELSE "needs_ad"

\* f"verify_{user_id}_{int(time.time())}_{random.randint(1000, 9999)}"
Token(u, t, r) == <<u, t, r>>

generate_verification_token(e, u, m, t, r) ==
    [e EXCEPT !.sessions =
        Put(e.sessions, Token(u, t, r),
            [user_id |-> u,
             material_index |-> m,
             created_at |-> t,
             ad_clicked |-> FALSE,
             wait_start |-> None,
             completed |-> FALSE])]

\* return value of verify_ad_click
verify_ad_click_ok(e, tok) == tok \in DOMAIN e.sessions

verify_ad_click(e, tok, t) ==
    IF tok \in DOMAIN e.sessions
    THEN [e EXCEPT !.sessions[tok].ad_clicked = TRUE,
                   !.sessions[tok].wait_start = t]
    ELSE e

\* check_verification_status that does not enforce the wait
check_verification_status_no_wait(e, tok, t) ==
    IF tok \notin DOMAIN e.sessions THEN "invalid"
    ELSE LET session == e.sessions[tok] IN
         IF ~session.ad_clicked THEN "not_clicked"
         ELSE IF session.completed THEN "already"
         ELSE IF session.wait_start # None
              THEN IF t - session.wait_start >= 0
                   THEN "complete"
                   ELSE "wait"
              ELSE "in_progress"

\* check_verification_status that does not look at the completed flag
check_verification_status_regrant(e, tok, t) ==
    IF tok \notin DOMAIN e.sessions THEN "invalid"
    ELSE LET session == e.sessions[tok] IN
         IF ~session.ad_clicked THEN "not_clicked"
         ELSE IF session.wait_start # None
              THEN IF t - session.wait_start >= WAIT_TIME_SECONDS
                   THEN "complete"
                   ELSE "wait"
              ELSE "in_progress"

\* Which return statement of check_verification_status is taken:
\*   "invalid"      False, "Invalid token"
\*   "not_clicked"  False, "Please click the ad link first"
\*   "already"      True,  "Already verified"
\*   "complete"     True,  "Verification complete! ..."
\*   "wait"         False, "Please wait {remaining} more seconds ..."
\*   "in_progress"  False, "Verification in progress"
check_verification_status(e, tok, t) ==
    IF tok \notin DOMAIN e.sessions THEN "invalid"
    ELSE LET session == e.sessions[tok] IN
         IF ~session.ad_clicked THEN "not_clicked"
         ELSE IF session.completed THEN "already"
         ELSE IF session.wait_start # None
              THEN IF t - session.wait_start >= WAIT_TIME_SECONDS
                   THEN "complete"
                   ELSE "wait"
              ELSE "in_progress"

\* is_verified, the first component of the returned pair
is_verified(kind) == kind \in {"already", "complete"}

\* Python's int() of a duration that is not negative, given in 1/Sub seconds:
\* the fraction is cut off
int(x) == x \div Sub

\* remaining that rounds the elapsed time up before subtracting it
remaining_round_up(elapsed) == WAIT_TIME_SECONDS - ((elapsed + Sub - 1) \div Sub)

\* remaining = config.WAIT_TIME_SECONDS - int(elapsed), elapsed in 1/Sub seconds
remaining(elapsed) == WAIT_TIME_SECONDS - int(elapsed)

\* remaining on the "wait" return of a poll made at the full second t
wait_remaining(e, tok, t) == remaining(Sub * (t - e.sessions[tok].wait_start))

\* check_verification_status whose "wait" answer restarts the wait
check_verification_status_eng_restarts_wait(e, tok, t) ==
    IF check_verification_status(e, tok, t) = "complete"
    THEN grant_token([e EXCEPT !.sessions[tok].completed = TRUE],
                     e.sessions[tok].user_id, t)
    ELSE IF check_verification_status(e, tok, t) = "wait"
    THEN [e EXCEPT !.sessions[tok].wait_start = t]
    ELSE e

\* stores after check_verification_status
check_verification_status_eng(e, tok, t) ==
    IF check_verification_status(e, tok, t) = "complete"
    THEN grant_token([e EXCEPT !.sessions[tok].completed = TRUE],
                     e.sessions[tok].user_id, t)
    ELSE e

\* cleanup_old_sessions that keeps the completed sessions
cleanup_old_sessions_keep_completed(e, t) ==
    LET expired == {tok \in DOMAIN e.sessions :
                        /\ t - e.sessions[tok].created_at > SESSION_MAX_AGE
                        /\ ~e.sessions[tok].completed}
    IN [e EXCEPT !.sessions = [tok \in DOMAIN e.sessions \ expired |-> e.sessions[tok]]]

cleanup_old_sessions(e, t) ==
    LET expired == {tok \in DOMAIN e.sessions :
                        t - e.sessions[tok].created_at > SESSION_MAX_AGE}
    IN [e EXCEPT !.sessions = [tok \in DOMAIN e.sessions \ expired |-> e.sessions[tok]]]

\* ------------------------------------------------- AdVerificationSystem
\* Which return statement of AdVerificationSystem.check_verification_status is
\* taken, over the sessions of that object:
\*   "invalid"      False, "Invalid token"
\*   "not_clicked"  False, "Ad not clicked"
\*   "already"      True,  "Already verified"
\*   "complete"     True,  "Verification complete"
\*   "wait"         False, "Wait {remaining} more seconds"
\*   "in_progress"  False, "Verification in progress"
ad_check_verification_status(sessions, tok, t) ==
    IF tok \notin DOMAIN sessions THEN "invalid"
    ELSE LET session == sessions[tok] IN
         IF ~session.ad_clicked THEN "not_clicked"
         ELSE IF session.completed THEN "already"
         ELSE IF session.wait_start # None
              THEN IF t - session.wait_start >= WAIT_TIME_SECONDS
                   THEN "complete"
                   ELSE "wait"
              ELSE "in_progress"

\* the sessions of that object after the call: no token is granted
ad_check_verification_status_eng(sessions, tok, t) ==
    IF ad_check_verification_status(sessions, tok, t) = "complete"
    THEN [sessions EXCEPT ![tok].completed = TRUE]
    ELSE sessions

\* ------------------------------------------------------------- persistence
\* str(k) of a user id: its decimal digits
Digit == <<"0", "1", "2", "3", "4", "5", "6", "7", "8", "9">>

RECURSIVE str(_)
str(k) == IF k < 10 THEN <<Digit[k + 1]>> ELSE Append(str(k \div 10), Digit[(k % 10) + 1])

\* int(k) of a key of the document succeeds: the key is made of digits
is_int_key(s) == s # << >> /\ \A i \in DOMAIN s : \E d \in DOMAIN Digit : Digit[d] = s[i]

\* int(k) of a key made of digits
RECURSIVE int_of_key(_)
int_of_key(s) ==
    IF s = << >> THEN 0
    ELSE 10 * int_of_key(SubSeq(s, 1, Len(s) - 1))
         + (CHOOSE d \in 0..9 : Digit[d + 1] = s[Len(s)])

\* the key load_user_stats stores a value under: int(k), or k itself when int(k)
\* raises ValueError
loaded_key(s) == IF is_int_key(s) THEN int_of_key(s) ELSE s

\* {str(k): v for k, v in smart_ad_system.user_stats.items()}, as json.dump
\* writes it and json.load reads it back: numbers and None come back as written
dumped(stats) ==
    [s \in {str(k) : k \in DOMAIN stats} |->
        stats[CHOOSE k \in DOMAIN stats : str(k) = s]]

\* The file user_stats.json:
\*   "missing"       there is no such file
\*   "valid"         a JSON object as save_user_stats writes it, held in doc
\*   "truncated"     a write that stopped part-way: not JSON (also the empty file)
\*   "bad_encoding"  bytes that are not UTF-8
\*   "not_object"    JSON whose top level is not an object (a list, null, a number)
\* writable: open(..., 'w') succeeds in the directory of the file.
Document(writable, kind, doc) == [writable |-> writable, kind |-> kind, doc |-> doc]

\* save_user_stats: the possible contents of the file afterwards.  open() fails
\* where the file cannot be written and leaves it alone; where it succeeds it
\* empties the file, and json.dump or the close either completes or raises
\* part-way.  Every exception is caught and logged.
save_user_stats(stats, d) ==
    IF ~d.writable
    THEN {d}
    ELSE {Document(TRUE, "valid", dumped(stats)), Document(TRUE, "truncated", << >>)}

\* load_user_stats: the store returned, or the exception that leaves the try
\* block uncaught.  FileNotFoundError and json.JSONDecodeError are caught;
\* UnicodeDecodeError (raised by the read) and AttributeError (raised by
\* data.items() on a value that is no dict) are not.
load_user_stats(d) ==
    CASE d.kind = "missing" -> [crashed |-> FALSE, stats |-> << >>]
      [] d.kind = "truncated" -> [crashed |-> FALSE, stats |-> << >>]
      [] d.kind = "bad_encoding" -> [crashed |-> TRUE, stats |-> << >>]
      [] d.kind = "not_object" -> [crashed |-> TRUE, stats |-> << >>]
      [] OTHER ->
           [crashed |-> FALSE,
            stats |-> [k \in {loaded_key(s) : s \in DOMAIN d.doc} |->
                          d.doc[CHOOSE s \in DOMAIN d.doc : loaded_key(s) = k]]]

\* ---------------------------------------------------------------- the state
\* The file the last handled event sent with send_document: the receiving user
\* and the path that led to the call,
\*   "ads_off"  select_material with the ad system switched off
\*   "token"    select_material with status token_active
\*   "free"     handle_free_download
\*   "verify"   process_download_verification
\* or NoFile when it sent none (no send_document call, or the call raised).
File(u, via) == [user |-> u, via |-> via]
NoFile == File(0, "none")

\* ------------------------------------------------- the storage client
\* A JSON document: the catalog (the materials of the subject, each with or
\* without a file_id), the statistics of UserTracker, or no file at all.
\* A document that is not the catalog holds no materials, one that is not the
\* statistics counts nothing.
EmptyStats == [unique_users |-> << >>, total_interactions |-> 0]
Catalog(m) == [is |-> "catalog", materials |-> m, stats |-> EmptyStats]
Stats(st) == [is |-> "user_stats", materials |-> << >>, stats |-> st]
Missing == [is |-> "missing", materials |-> << >>, stats |-> EmptyStats]

\* the two files of the repository the bot reads and writes
Paths == {"study_materials.json", "user_stats.json"}

\* GitHubStorage.__init__, with the files around it: local is the file
\* study_materials.json of the working directory, writable whether open(.., 'w')
\* succeeds on it, remote the files of the repository.
\* configured: init_github_storage found GITHUB_TOKEN and GITHUB_REPO and the
\* repository answered, so the global github_storage is set; otherwise it is
\* None and the bot runs in local-only mode.
GitHubStorage(configured, writable, local, remote) ==
    [configured |-> configured, file_path |-> "study_materials.json",
     last_sync_time |-> 0, writable |-> writable, local |-> local, remote |-> remote]

\* what the last call of the storage client did: the data passed in or
\* returned, the value returned by save_data, and the requests it sent
Call(op, data, ret, gets, puts) ==
    [op |-> op, data |-> data, ret |-> ret, gets |-> gets, puts |-> puts]
NoCall == Call("none", Missing, FALSE, 0, 0)

NoTracker == Missing

\* The behaviours that follow the download handlers leave the storage client
\* alone: it was constructed, the local file holds the catalog that was loaded.
StorageIdle ==
    /\ storage = GitHubStorage(TRUE, TRUE, Catalog(materials),
                               [p \in Paths |-> IF p = "study_materials.json"
                                                THEN Catalog(materials)
                                                ELSE Missing])
    /\ call = NoCall
    /\ user_tracker = NoTracker
    /\ user_data = [u \in Members |-> FALSE]

\* The catalog is loaded at start-up and holds one material of the subject, with
\* or without a file_id; the clock reads 1.  user_stats.json does not exist and
\* cannot be created here (open() fails, save_user_stats logs it): nothing reads
\* the file while the bot runs, so the stores behave the same wherever it can be
\* written, and SpecPersist follows the file where it can.
\* The updates of a behaviour come from all the users, or from user 1 alone,
\* who is then followed further (MaxDownloadsAlone, MaxOverwrites).
Init ==
    /\ materials \in {<<TRUE>>, <<FALSE>>}
    /\ StorageIdle
    /\ acting \in {Users, {1}}
    /\ now = 1
    /\ ticks = 0
    /\ ad_enabled = TRUE
    /\ user_stats = << >>
    /\ user_tokens = << >>
    /\ user_sessions = << >>
    /\ ad_verification = << >>
    /\ click_data = << >>
    /\ prompt = [u \in Users |-> -1]
    /\ created = 0
    /\ resets = 0
    /\ sent = NoFile
    /\ free_sent = [u \in Users |-> 0]
    /\ session_hist = << >>
    /\ log = [u \in Users |-> << >>]
    /\ disk = Document(FALSE, "missing", << >>)
    /\ running = TRUE
    /\ tasks = << >>

SetEng(e) ==
    /\ user_stats' = e.stats
    /\ user_tokens' = e.tokens
    /\ user_sessions' = e.sessions

\* history of a session just created
NewHist == [first_click |-> None, grants |-> 0]

\* the history follows the stored sessions: a deleted session loses its entry
KeepHist(h, e) == [tok \in DOMAIN h \cap DOMAIN e.sessions |-> h[tok]]

\* the recorded requests of u's window, once get_user_status has run for u:
\* a due reset opens a new window
WindowLog(u) == IF reset_due(Eng, u, now) THEN << >> ELSE log[u]

\* One recorded request.  What it found: whether user_tokens held an unexpired
\* token of the user, and the user's free_downloads_used (after a due reset).
\* What select_material did: the status it acted on, whether it consumed a free
\* slot, created a session, sent a file.
Entry(token, used, status, slot, session, file) ==
    [token |-> token, used |-> used,
     status |-> status, slot |-> slot, session |-> session, file |-> file]

Record(l, entry) == IF Len(l) < MaxLog THEN Append(l, entry) ELSE l

\* This step is a download request of u that select_material decided and
\* recorded; LastEntry(u) is its record.
Requested(u) == log'[u] # log[u] /\ log'[u] # << >>
LastEntry(u) == log'[u][Len(log'[u])]

\* The first times at which a time comparison of the code changes its answer:
\* the reset is due, the token has expired, the wait is over, the session is
\* older than an hour.
FlipTimes ==
    {user_stats[u].free_downloads_reset_time : u \in DOMAIN user_stats}
    \cup {user_tokens[u].expires_at : u \in DOMAIN user_tokens}
    \cup {user_sessions[k].wait_start + WAIT_TIME_SECONDS :
            k \in {x \in DOMAIN user_sessions : user_sessions[x].ad_clicked}}
    \cup {user_sessions[k].created_at + SESSION_MAX_AGE + 1 : k \in DOMAIN user_sessions}

\* The clock moves on to the last second before such a time, or onto it.
Tick ==
    /\ ticks < MaxTicks
    /\ \E t \in FlipTimes \cup {f - 1 : f \in FlipTimes} :
         /\ t > now
         /\ now' = t
    /\ ticks' = ticks + 1
    /\ sent' = NoFile
    /\ UNCHANGED <<materials, acting, storage, call, user_tracker, user_data, ad_verification, running, tasks, disk, ad_enabled, user_stats, user_tokens, user_sessions, click_data,
                   prompt, created, resets, free_sent, session_hist, log>>

\* send_material_direct: the possible replies.  It touches none of the stores.
send_material_direct(u, m, via) ==
    IF m \in MaterialIdx /\ HasFileId(m)
    THEN {File(u, via), NoFile}
    ELSE {NoFile}

\* show_ad_verification (the second definition, which the module keeps)
ShowAdVerification(e, u, m) ==
    \E r \in RandVals :
       LET e1 == get_user_status_eng(e, u, now)
           e2 == generate_verification_token(e1, u, m, now, r)
       IN /\ \/ created < MaxSessions
             \/ /\ acting # Users
                /\ Token(u, now, r) \in DOMAIN e1.sessions
                /\ created < MaxSessions + MaxOverwrites
          /\ SetEng(e2)
          /\ created' = created + 1
          /\ sent' = NoFile
          /\ session_hist' = Put(session_hist, Token(u, now, r), NewHist)
          /\ UNCHANGED prompt

\* select_material that gates the request even when the ad system is off
SelectMaterial_ignores_switch(u, m) ==
    /\ IF FALSE
       THEN /\ sent' \in send_material_direct(u, m, "ads_off")
            /\ UNCHANGED <<user_stats, user_tokens, user_sessions, prompt, created,
                           session_hist, log, disk>>
       ELSE LET status == get_user_status(Eng, u, now)
                e1 == get_user_status_eng(Eng, u, now)
            IN /\ CASE status = "free_downloads" ->
                         /\ SetEng(use_free_download(e1, u, now))
                         /\ Consumed(user_stats') <= IF acting = Users
                                                      THEN MaxDownloads
                                                      ELSE MaxDownloadsAlone
                         /\ disk' \in save_user_stats(user_stats', disk)
                         /\ prompt' = [prompt EXCEPT ![u] = m]
                         /\ sent' = NoFile
                         /\ UNCHANGED <<created, session_hist>>
                    [] status = "token_active" ->
                         /\ SetEng(e1)
                         /\ sent' \in send_material_direct(u, m, "token")
                         /\ UNCHANGED <<prompt, created, session_hist, disk>>
                    [] OTHER -> ShowAdVerification(e1, u, m) /\ UNCHANGED disk
               /\ log' = [log EXCEPT ![u] =
                            Record(WindowLog(u),
                                   Entry(u \in DOMAIN user_tokens
                                            /\ now < user_tokens[u].expires_at,
                                         e1.stats[u].free_downloads_used,
                                         status,
                                         user_stats'[u].total_downloads
                                            > e1.stats[u].total_downloads,
                                         DOMAIN user_sessions' # DOMAIN user_sessions
                                            \/ created' > created,
                                         sent' # NoFile))]
    /\ UNCHANGED <<materials, acting, storage, call, user_tracker, user_data, ad_verification, running, tasks, now, ticks, ad_enabled, click_data, resets, free_sent>>

\* select_material that takes the consumed slot back when the write of
\* user_stats.json fails
SelectMaterial_rolls_back(u, m) ==
    /\ IF ~ad_enabled
       THEN /\ sent' \in send_material_direct(u, m, "ads_off")
            /\ UNCHANGED <<user_stats, user_tokens, user_sessions, prompt, created,
                           session_hist, log, disk>>
       ELSE LET status == get_user_status(Eng, u, now)
                e1 == get_user_status_eng(Eng, u, now)
            IN /\ CASE status = "free_downloads" ->
                         /\ disk' \in save_user_stats(use_free_download(e1, u, now).stats, disk)
                         /\ SetEng(IF disk'.kind = "valid"
                                   THEN use_free_download(e1, u, now)
                                   ELSE e1)
                         /\ Consumed(user_stats') <= IF acting = Users
                                                      THEN MaxDownloads
                                                      ELSE MaxDownloadsAlone
                         /\ prompt' = [prompt EXCEPT ![u] = m]
                         /\ sent' = NoFile
                         /\ UNCHANGED <<created, session_hist>>
                    [] status = "token_active" ->
                         /\ SetEng(e1)
                         /\ sent' \in send_material_direct(u, m, "token")
                         /\ UNCHANGED <<prompt, created, session_hist, disk>>
                    [] OTHER -> ShowAdVerification(e1, u, m) /\ UNCHANGED disk
               /\ log' = [log EXCEPT ![u] =
                            Record(WindowLog(u),
                                   Entry(u \in DOMAIN user_tokens
                                            /\ now < user_tokens[u].expires_at,
                                         e1.stats[u].free_downloads_used,
                                         status,
                                         user_stats'[u].total_downloads
                                            > e1.stats[u].total_downloads,
                                         DOMAIN user_sessions' # DOMAIN user_sessions
                                            \/ created' > created,
                                         sent' # NoFile))]
    /\ UNCHANGED <<materials, acting, storage, call, user_tracker, user_data, ad_verification, running, tasks, now, ticks, ad_enabled, click_data, resets, free_sent>>

\* select_material: a "material_<i>" button pressed by user u
SelectMaterial(u, m) ==
    /\ IF ~ad_enabled
       THEN /\ sent' \in send_material_direct(u, m, "ads_off")
            /\ UNCHANGED <<user_stats, user_tokens, user_sessions, prompt, created,
                           session_hist, log, disk>>
       ELSE LET status == get_user_status(Eng, u, now)
                e1 == get_user_status_eng(Eng, u, now)
            IN /\ CASE status = "free_downloads" ->
                         /\ SetEng(use_free_download(e1, u, now))
                         /\ Consumed(user_stats') <= IF acting = Users
                                                      THEN MaxDownloads
                                                      ELSE MaxDownloadsAlone
                         /\ disk' \in save_user_stats(user_stats', disk)
                         /\ prompt' = [prompt EXCEPT ![u] = m]
                         /\ sent' = NoFile
                         /\ UNCHANGED <<created, session_hist>>
                    [] status = "token_active" ->
                         /\ SetEng(e1)
                         /\ sent' \in send_material_direct(u, m, "token")
                         /\ UNCHANGED <<prompt, created, session_hist, disk>>
                    [] OTHER -> ShowAdVerification(e1, u, m) /\ UNCHANGED disk
               /\ log' = [log EXCEPT ![u] =
                            Record(WindowLog(u),
                                   Entry(u \in DOMAIN user_tokens
                                            /\ now < user_tokens[u].expires_at,
                                         e1.stats[u].free_downloads_used,
                                         status,
                                         user_stats'[u].total_downloads
                                            > e1.stats[u].total_downloads,
                                         DOMAIN user_sessions' # DOMAIN user_sessions
                                            \/ created' > created,
                                         sent' # NoFile))]
    /\ UNCHANGED <<materials, acting, storage, call, user_tracker, user_data, ad_verification, running, tasks, now, ticks, ad_enabled, click_data, resets, free_sent>>

\* handle_free_download, browse path: a "free_download_<i>" callback of user u.
\* The button is the one select_material put under its prompt; every tap on it
\* is one callback update.
HandleFreeDownload(u) ==
    /\ prompt[u] # -1
    /\ sent' \in IF free_sent[u] < MaxFreeSent
                 THEN send_material_direct(u, prompt[u], "free")
                 ELSE {NoFile}
    /\ free_sent' = [free_sent EXCEPT ![u] = IF sent' # NoFile THEN @ + 1 ELSE @]
    /\ UNCHANGED <<materials, acting, storage, call, user_tracker, user_data, ad_verification, running, tasks, disk, now, ticks, ad_enabled, user_stats, user_tokens, user_sessions,
                   click_data, prompt, created, resets, session_hist, log>>

\* a token no session is stored under (sessions are created at time >= 1)
StaleToken(u) == Token(u, 0, RAND_LOW)

\* process_download_verification: a "verify_download_<token>" callback sent by p
ProcessDownloadVerification(p, tok) ==
    LET msg == check_verification_status(Eng, tok, now)
        e1 == check_verification_status_eng(Eng, tok, now)
        h1 == IF tok \in DOMAIN session_hist
                 /\ e1.stats # user_stats
              THEN [session_hist EXCEPT ![tok].grants = @ + 1]
              ELSE session_hist
    IN
    /\ IF ~is_verified(msg)
       THEN /\ SetEng(e1)
            /\ sent' = NoFile
            /\ session_hist' = h1
            /\ UNCHANGED <<log, disk>>
       ELSE LET m == e1.sessions[tok].material_index IN
            IF ~HasFileId(m)
            THEN /\ SetEng(e1)
                 /\ sent' = NoFile
                 /\ session_hist' = h1
                 /\ UNCHANGED <<log, disk>>
            ELSE LET e2 == get_user_status_eng(e1, p, now)
                     e3 == [e2 EXCEPT !.sessions = Drop(e2.sessions, tok)]
                 IN /\ SetEng(e3)
                    /\ disk' \in save_user_stats(e3.stats, disk)
                    /\ sent' \in {File(p, "verify"), NoFile}
                    /\ session_hist' = KeepHist(h1, e3)
                    /\ log' = [log EXCEPT ![p] = WindowLog(p)]
    /\ UNCHANGED <<materials, acting, storage, call, user_tracker, user_data, ad_verification, running, tasks, now, ticks, ad_enabled, click_data, prompt, created, resets,
                   free_sent>>

\* check_verification_status, the handler of a "check_status_<token>" callback:
\* it asks the ad_verification object, then edits the message
CheckStatus(p, tok) ==
    /\ ad_verification' = ad_check_verification_status_eng(ad_verification, tok, now)
    /\ sent' = NoFile
    /\ UNCHANGED <<materials, acting, storage, call, user_tracker, user_data, running, tasks, disk, now, ticks, ad_enabled,
                   user_stats, user_tokens, user_sessions, click_data, prompt, created,
                   resets, free_sent, session_hist, log>>

\* SmartAdSystem.verify_ad_click, the engine's "ad link clicked" operation
VerifyAdClick(tok) ==
    /\ SetEng(verify_ad_click(Eng, tok, now))
    /\ sent' = NoFile
    /\ session_hist' =
          IF tok \in DOMAIN session_hist /\ session_hist[tok].first_click = None
          THEN [session_hist EXCEPT ![tok].first_click = now]
          ELSE session_hist
    /\ UNCHANGED <<materials, acting, storage, call, user_tracker, user_data, ad_verification, running, tasks, disk, now, ticks, ad_enabled, click_data, prompt, created, resets,
                   free_sent, log>>

\* tracker.track_click: GET /click?...&token=<token>
TrackClick(tok) ==
    /\ click_data' = Put(click_data, tok, now)
    /\ sent' = NoFile
    /\ UNCHANGED <<materials, acting, storage, call, user_tracker, user_data, ad_verification, running, tasks, disk, now, ticks, ad_enabled, user_stats, user_tokens, user_sessions,
                   prompt, created, resets, free_sent, session_hist, log>>

\* show_user_status: get_user_status, twice
ShowUserStatus(u) ==
    LET e1 == get_user_status_eng(Eng, u, now)
        e2 == get_user_status_eng(e1, u, now)
    IN /\ SetEng(e2)
       /\ sent' = NoFile
       /\ log' = [log EXCEPT ![u] = WindowLog(u)]
       /\ UNCHANGED <<materials, acting, storage, call, user_tracker, user_data, ad_verification, running, tasks, disk, now, ticks, ad_enabled, click_data, prompt, created, resets,
                      free_sent, session_hist>>

\* reset_user: the /reset command
ResetUser(u) ==
    /\ IF u \in DOMAIN user_stats
       THEN /\ resets < MaxResets
            /\ user_stats' = [user_stats EXCEPT
                                ![u].free_downloads_used = 0,
                                ![u].free_downloads_reset_time = now + RESET_USER_HOURS * HOUR]
            /\ disk' \in save_user_stats(user_stats', disk)
            /\ resets' = resets + 1
            /\ log' = [log EXCEPT ![u] = << >>]
       ELSE UNCHANGED <<user_stats, resets, log, disk>>
    /\ sent' = NoFile
    /\ UNCHANGED <<materials, acting, storage, call, user_tracker, user_data, ad_verification, running, tasks, now, ticks, ad_enabled, user_tokens, user_sessions, click_data,
                   prompt, created, free_sent, session_hist>>

\* toggle_ads: the /toggle_ads command
ToggleAds(u) ==
    /\ IF u \in ADMIN_IDS
       THEN /\ ad_enabled' = ~ad_enabled
            /\ sent' = NoFile
       ELSE /\ UNCHANGED ad_enabled
            /\ sent' = NoFile
    /\ UNCHANGED <<materials, acting, storage, call, user_tracker, user_data, ad_verification, running, tasks, disk, now, ticks, user_stats, user_tokens, user_sessions, click_data,
                   prompt, created, resets, free_sent, session_hist, log>>

\* SmartAdSystem.cleanup_old_sessions
CleanupOldSessions ==
    LET e1 == cleanup_old_sessions(Eng, now) IN
    /\ SetEng(e1)
    /\ sent' = NoFile
    /\ session_hist' = KeepHist(session_hist, e1)
    /\ UNCHANGED <<materials, acting, storage, call, user_tracker, user_data, ad_verification, running, tasks, disk, now, ticks, ad_enabled, click_data, prompt, created, resets,
                   free_sent, log>>

\* tokens an event can carry: those of stored sessions, and one that is stored nowhere
Tokens == DOMAIN user_sessions \cup {StaleToken(1)}

\* The engine and every handler that drives it.
Next ==
    \/ Tick
    \/ \E u \in acting, m \in MaterialIdx : SelectMaterial(u, m)
    \/ \E u \in acting : HandleFreeDownload(u)
    \/ \E p \in acting, tok \in Tokens : ProcessDownloadVerification(p, tok)
    \/ \E tok \in Tokens : VerifyAdClick(tok)
    \/ \E p \in acting, tok \in Tokens : CheckStatus(p, tok)
    \/ \E u \in acting : ShowUserStatus(u)
    \/ \E u \in acting : ResetUser(u)
    \/ \E u \in acting : ToggleAds(u)
    \/ CleanupOldSessions

Spec == Init /\ [][Next]_vars

\* One verification session polled second by second.  It starts where user u
\* has used both free slots and has just got the ad prompt.
InitPoll ==
    \E u \in Users, r \in RandVals :
       LET e0 == [stats |-> << >>, tokens |-> << >>, sessions |-> << >>]
           e1 == use_free_download(get_user_status_eng(e0, u, 1), u, 1)
           e2 == use_free_download(get_user_status_eng(e1, u, 1), u, 1)
           e3 == generate_verification_token(get_user_status_eng(e2, u, 1), u, 0, 1, r)
           free(n) == Entry(FALSE, n, "free_downloads", TRUE, FALSE, FALSE)
           ad == Entry(FALSE, FREE_DOWNLOADS_ALLOWED, "needs_ad", FALSE, TRUE, FALSE)
       IN /\ materials \in {<<TRUE>>, <<FALSE>>}
          /\ StorageIdle
          /\ acting = Users
          /\ now = 1
          /\ ticks = 0
          /\ ad_enabled = TRUE
          /\ user_stats = e3.stats
          /\ user_tokens = e3.tokens
          /\ user_sessions = e3.sessions
          /\ ad_verification = << >>
          /\ click_data = << >>
          /\ prompt = [v \in Users |-> IF v = u THEN 0 ELSE -1]
          /\ created = 1
          /\ resets = 0
          /\ sent = NoFile
          /\ free_sent = [v \in Users |-> 0]
          /\ session_hist = Put(<< >>, Token(u, 1, r), NewHist)
          /\ log = [v \in Users |-> IF v = u THEN <<free(0), free(1), ad>> ELSE << >>]
          /\ disk = Document(FALSE, "missing", << >>)
          /\ running = TRUE
          /\ tasks = << >>

\* the clock moves on by one second
Second ==
    /\ now < MaxPollTime
    /\ now' = now + 1
    /\ sent' = NoFile
    /\ UNCHANGED <<materials, acting, storage, call, user_tracker, user_data, ad_verification, running, tasks, disk, ticks, ad_enabled, user_stats, user_tokens,
                   user_sessions, click_data, prompt, created, resets, free_sent,
                   session_hist, log>>

NextPoll ==
    \/ Second
    \/ \E tok \in Tokens : VerifyAdClick(tok)
    \/ \E p \in acting, tok \in Tokens : ProcessDownloadVerification(p, tok)

SpecPoll == InitPoll /\ [][NextPoll]_vars

\* ------------------------------------------------- handlers, await by await
\* A "material_<i>" callback handled by handle_button and select_material, as
\* the event loop runs it: a coroutine runs alone from one await to the next,
\* and any other coroutine may run while it is suspended.  pc names the await
\* the coroutine is suspended at:
\*   "button_answer"  handle_button: await query.answer()
\*   "free_answer"    select_material, free branch: await query.answer()
\*   "free_edit"      select_material, free branch: await query.edit_message_text
\*   "sending"        send_material_direct (its awaits touch no store)
\*   "ad_answer"      show_ad_verification: await query.answer()
\*   "ad_edit"        show_ad_verification: await query.edit_message_text
\*   "done"           the handler has returned
\* What the coroutine decided is kept with it: the status select_material acted
\* on ("ads_off" when the ad system was off), the free_downloads_used it found,
\* the count use_free_download returned (None when it was not called), and
\* order, its rank among the decisions taken so far.
Task(u, m) ==
    [user |-> u, m |-> m, pc |-> "button_answer",
     status |-> "", found |-> None, count |-> None, order |-> None]

Decided == {k \in DOMAIN tasks : tasks[k].order # None}

At(k, pc) == k \in DOMAIN tasks /\ tasks[k].pc = pc

Goto(k, pc) == tasks' = [tasks EXCEPT ![k].pc = pc]

\* the update arrives and handle_button runs up to its await
Receive(u, m) ==
    /\ Len(tasks) < NumTasks
    /\ tasks' = Append(tasks, Task(u, m))
    /\ sent' = NoFile
    /\ UNCHANGED <<materials, acting, storage, call, user_tracker, user_data, ad_verification, running, disk, now, ticks, ad_enabled, user_stats,
                   user_tokens, user_sessions, click_data, prompt, created, resets,
                   free_sent, session_hist, log>>

\* select_material that decides on a free slot and leaves its consumption for later
Decide_defers_consumption(k) ==
    LET u == tasks[k].user
        status == get_user_status(Eng, u, now)
        e1 == get_user_status_eng(Eng, u, now)
        decided(st, pc, count) ==
            tasks' = [tasks EXCEPT ![k].pc = pc, ![k].status = st,
                                   ![k].found = IF st = "ads_off" THEN None
                                                ELSE e1.stats[u].free_downloads_used,
                                   ![k].count = count,
                                   ![k].order = Cardinality(Decided) + 1]
    IN /\ At(k, "button_answer")
       /\ IF ~ad_enabled
          THEN /\ decided("ads_off", "sending", None)
               /\ UNCHANGED <<user_stats, user_tokens, user_sessions, disk>>
          ELSE CASE status = "free_downloads" ->
                      /\ SetEng(e1)
                      /\ disk' \in save_user_stats(user_stats', disk)
                      /\ decided(status, "free_answer",
                                 use_free_download_count(e1, u, now))
                 [] status = "token_active" ->
                      /\ SetEng(e1)
                      /\ decided(status, "sending", None)
                      /\ UNCHANGED disk
                 [] OTHER ->
                      /\ SetEng(e1)
                      /\ decided(status, "ad_answer", None)
                      /\ UNCHANGED disk
       /\ sent' = NoFile
       /\ UNCHANGED <<materials, acting, storage, call, user_tracker, user_data, ad_verification, running, now, ticks, ad_enabled, click_data, prompt,
                      created, resets, free_sent, session_hist, log>>

\* handle_button resumes and calls select_material, which runs without an await
\* from the AD_VERIFICATION_ENABLED test through get_user_status and, on the
\* free branch, use_free_download and save_user_stats
Decide(k) ==
    LET u == tasks[k].user
        status == get_user_status(Eng, u, now)
        e1 == get_user_status_eng(Eng, u, now)
        decided(st, pc, count) ==
            tasks' = [tasks EXCEPT ![k].pc = pc, ![k].status = st,
                                   ![k].found = IF st = "ads_off" THEN None
                                                ELSE e1.stats[u].free_downloads_used,
                                   ![k].count = count,
                                   ![k].order = Cardinality(Decided) + 1]
    IN /\ At(k, "button_answer")
       /\ IF ~ad_enabled
          THEN /\ decided("ads_off", "sending", None)
               /\ UNCHANGED <<user_stats, user_tokens, user_sessions, disk>>
          ELSE CASE status = "free_downloads" ->
                      /\ SetEng(use_free_download(e1, u, now))
                      /\ disk' \in save_user_stats(user_stats', disk)
                      /\ decided(status, "free_answer",
                                 use_free_download_count(e1, u, now))
                 [] status = "token_active" ->
                      /\ SetEng(e1)
                      /\ decided(status, "sending", None)
                      /\ UNCHANGED disk
                 [] OTHER ->
                      /\ SetEng(e1)
                      /\ decided(status, "ad_answer", None)
                      /\ UNCHANGED disk
       /\ sent' = NoFile
       /\ UNCHANGED <<materials, acting, storage, call, user_tracker, user_data, ad_verification, running, now, ticks, ad_enabled, click_data, prompt,
                      created, resets, free_sent, session_hist, log>>

\* free branch: query.answer() has returned
FreeAnswered(k) ==
    /\ At(k, "free_answer")
    /\ Goto(k, "free_edit")
    /\ sent' = NoFile
    /\ UNCHANGED <<materials, acting, storage, call, user_tracker, user_data, ad_verification, running, disk, now, ticks, ad_enabled, user_stats,
                   user_tokens, user_sessions, click_data, prompt, created, resets,
                   free_sent, session_hist, log>>

\* free branch: the "Download Now" prompt is on the screen
FreePrompt(k) ==
    /\ At(k, "free_edit")
    /\ Goto(k, "done")
    /\ prompt' = [prompt EXCEPT ![tasks[k].user] = tasks[k].m]
    /\ sent' = NoFile
    /\ UNCHANGED <<materials, acting, storage, call, user_tracker, user_data, ad_verification, running, disk, now, ticks, ad_enabled, user_stats,
                   user_tokens, user_sessions, click_data, created, resets,
                   free_sent, session_hist, log>>

\* send_material_direct has returned
Send(k) ==
    /\ At(k, "sending")
    /\ Goto(k, "done")
    /\ sent' \in send_material_direct(tasks[k].user, tasks[k].m,
                                      IF tasks[k].status = "ads_off"
                                      THEN "ads_off" ELSE "token")
    /\ UNCHANGED <<materials, acting, storage, call, user_tracker, user_data, ad_verification, running, disk, now, ticks, ad_enabled, user_stats,
                   user_tokens, user_sessions, click_data, prompt, created, resets,
                   free_sent, session_hist, log>>

\* show_ad_verification resumes after query.answer(): get_user_status again,
\* then generate_verification_token
AdSession(k) ==
    /\ At(k, "ad_answer")
    /\ Goto(k, "ad_edit")
    /\ ShowAdVerification(Eng, tasks[k].user, tasks[k].m)
    /\ UNCHANGED <<materials, acting, storage, call, user_tracker, user_data, ad_verification, running, disk, now, ticks, ad_enabled, click_data,
                   resets, free_sent, log>>

\* show_ad_verification: the ad prompt is on the screen
AdShown(k) ==
    /\ At(k, "ad_edit")
    /\ Goto(k, "done")
    /\ sent' = NoFile
    /\ UNCHANGED <<materials, acting, storage, call, user_tracker, user_data, ad_verification, running, disk, now, ticks, ad_enabled, user_stats,
                   user_tokens, user_sessions, click_data, prompt, created, resets,
                   free_sent, session_hist, log>>

\* user_stats.json can be written.  The bot has just started, or user 1 has
\* asked for a file once before and has one free slot left.
InitConc ==
    \E before \in BOOLEAN :
       LET e0 == [stats |-> << >>, tokens |-> << >>, sessions |-> << >>]
           e1 == IF before
                 THEN use_free_download(get_user_status_eng(e0, 1, 1), 1, 1)
                 ELSE e0
           new == Document(TRUE, "missing", << >>)
       IN /\ materials \in {<<TRUE>>, <<FALSE>>}
          /\ StorageIdle
          /\ acting \in {Users, {1}}
          /\ now = 1
          /\ ticks = 0
          /\ ad_enabled = TRUE
          /\ user_stats = e1.stats
          /\ user_tokens = e1.tokens
          /\ user_sessions = e1.sessions
          /\ ad_verification = << >>
          /\ click_data = << >>
          /\ prompt = [u \in Users |-> IF before /\ u = 1 THEN 0 ELSE -1]
          /\ created = 0
          /\ resets = 0
          /\ sent = NoFile
          /\ free_sent = [u \in Users |-> 0]
          /\ session_hist = << >>
          /\ log = [u \in Users |->
                      IF before /\ u = 1
                      THEN <<Entry(FALSE, 0, "free_downloads", TRUE, FALSE, FALSE)>>
                      ELSE << >>]
          /\ disk \in IF before THEN save_user_stats(e1.stats, new) ELSE {new}
          /\ running = TRUE
          /\ tasks = << >>

NextConc ==
    \/ \E u \in acting, m \in MaterialIdx : Receive(u, m)
    \/ \E k \in DOMAIN tasks : Decide(k)
    \/ \E k \in DOMAIN tasks : FreeAnswered(k)
    \/ \E k \in DOMAIN tasks : FreePrompt(k)
    \/ \E k \in DOMAIN tasks : Send(k)
    \/ \E k \in DOMAIN tasks : AdSession(k)
    \/ \E k \in DOMAIN tasks : AdShown(k)
    \/ \E u \in acting : ToggleAds(u)

SpecConc == InitConc /\ [][NextConc]_vars

\* ------------------------------------------------ the bot and its file
\* What the directory of the bot holds when the process is started for the
\* first time: no user_stats.json, a document an earlier run saved (user 1 with
\* one free slot used at time 1), or a file damaged in one of the three ways.
StartDocuments ==
    LET e0 == [stats |-> << >>, tokens |-> << >>, sessions |-> << >>]
        e1 == use_free_download(get_user_status_eng(e0, 1, 1), 1, 1)
    IN {Document(TRUE, "missing", << >>),
        Document(TRUE, "valid", dumped(e1.stats)),
        Document(TRUE, "truncated", << >>),
        Document(TRUE, "bad_encoding", << >>),
        Document(TRUE, "not_object", << >>)}

\* The module is imported: smart_ad_system = SmartAdSystem(), then
\* smart_ad_system.user_stats = load_user_stats().  An exception that leaves
\* load_user_stats ends the process before main() runs.
InitPersist ==
    /\ materials \in {<<TRUE>>, <<FALSE>>}
    /\ StorageIdle
    /\ acting = {1}
    /\ now = 1
    /\ ticks = 0
    /\ ad_enabled = TRUE
    /\ disk \in StartDocuments
    /\ running = ~load_user_stats(disk).crashed
    /\ user_stats = load_user_stats(disk).stats
    /\ user_tokens = << >>
    /\ user_sessions = << >>
    /\ ad_verification = << >>
    /\ click_data = << >>
    /\ prompt = [u \in Users |-> -1]
    /\ created = 0
    /\ resets = 0
    /\ sent = NoFile
    /\ free_sent = [u \in Users |-> 0]
    /\ session_hist = << >>
    /\ log = [u \in Users |-> << >>]
    /\ tasks = << >>

\* The process is stopped and started again: the tokens and the sessions are
\* gone, user_stats is what load_user_stats returns.
Restart ==
    /\ running' = ~load_user_stats(disk).crashed
    /\ user_stats' = load_user_stats(disk).stats
    /\ user_tokens' = << >>
    /\ user_sessions' = << >>
    /\ click_data' = << >>
    /\ session_hist' = << >>
    /\ log' = [u \in Users |-> << >>]
    /\ sent' = NoFile
    /\ UNCHANGED <<materials, acting, storage, call, user_tracker, user_data, ad_verification, tasks, disk, now, ticks, ad_enabled, prompt, created,
                   resets, free_sent>>

NextPersist ==
    \/ Restart
    \/ Tick
    \/ running /\ \E u \in acting, m \in MaterialIdx : SelectMaterial(u, m)
    \/ running /\ \E p \in acting, tok \in Tokens : ProcessDownloadVerification(p, tok)
    \/ running /\ \E tok \in Tokens : VerifyAdClick(tok)
    \/ running /\ \E u \in acting : ShowUserStatus(u)
    \/ running /\ \E u \in acting : ResetUser(u)

SpecPersist == InitPersist /\ [][NextPersist]_vars

\* The deployment as its handlers are wired: an ad link opened through the
\* tracker reaches tracker.track_click; nothing calls verify_ad_click or
\* cleanup_old_sessions.
NextWired ==
    \/ Tick
    \/ \E u \in acting, m \in MaterialIdx : SelectMaterial(u, m)
    \/ \E u \in acting : HandleFreeDownload(u)
    \/ \E p \in acting, tok \in Tokens : ProcessDownloadVerification(p, tok)
    \/ \E tok \in Tokens : TrackClick(tok)
    \/ \E p \in acting, tok \in Tokens : CheckStatus(p, tok)
    \/ \E u \in acting : ShowUserStatus(u)
    \/ \E u \in acting : ResetUser(u)
    \/ \E u \in acting : ToggleAds(u)

SpecWired == Init /\ [][NextWired]_vars

\* run_polling goes on handling updates: the bot never stops while an update
\* can be handled.
SpecWiredLive == Init /\ [][NextWired]_vars /\ WF_vars(NextWired)

\* ------------------------------------------------------------------ claims

\* C1: a user's free_downloads_used is never above FREE_DOWNLOADS_ALLOWED (and
\* never below 0), whatever requests, resets and clock advances happened.
C1_QuotaBounded ==
    \A u \in DOMAIN user_stats :
        /\ user_stats[u].free_downloads_used >= 0
        /\ user_stats[u].free_downloads_used <= FREE_DOWNLOADS_ALLOWED

\* a user whose quota is full asked for a third download in the same window
C1_Witness ==
    \E u \in DOMAIN user_stats :
        /\ user_stats[u].free_downloads_used = FREE_DOWNLOADS_ALLOWED
        /\ Len(log[u]) = FREE_DOWNLOADS_ALLOWED + 1

\* C2: the files a user received from "free_download_<index>" callbacks are
\* never more than the free slots that user has consumed, even when the
\* callback is repeated.
C2_FreeDeliveriesWithinSlots ==
    \A u \in Users :
        free_sent[u] <= IF u \in DOMAIN user_stats
                        THEN user_stats[u].total_downloads
                        ELSE 0

\* C3: select_material decides by token first, free quota second, ad
\* verification last.  A request that finds a valid token is served on the
\* token path and spends neither a slot nor a session, whatever the quota; one
\* that finds no token but a free slot consumes the slot; one that finds
\* neither gets a verification session and no file.
C3_GatingPriority ==
    \A u \in Users :
        \A i \in 1..Len(log[u]) :
            LET en == log[u][i] IN
            /\ en.token =>
                  /\ en.status = "token_active"
                  /\ ~en.slot /\ ~en.session
            /\ ~en.token /\ en.used < FREE_DOWNLOADS_ALLOWED =>
                  /\ en.status = "free_downloads"
                  /\ en.slot /\ ~en.session /\ ~en.file
            /\ ~en.token /\ en.used >= FREE_DOWNLOADS_ALLOWED =>
                  /\ en.status = "needs_ad"
                  /\ ~en.slot /\ en.session /\ ~en.file

\* a user holding a valid token and free slots was served on the token path
C3_Witness ==
    \E u \in Users :
        /\ log[u] # << >>
        /\ log[u][Len(log[u])].token
        /\ log[u][Len(log[u])].used < FREE_DOWNLOADS_ALLOWED
        /\ sent = File(u, "token")

\* C4: of the download requests a user without a token makes in one reset
\* window, the first FREE_DOWNLOADS_ALLOWED (two) take the free-slot path and
\* consume a slot each; the next one gets the ad prompt: a session is created
\* and no file is sent.
C4_ThirdRequestGetsAd ==
    \A u \in Users :
        \A i \in 1..Len(log[u]) :
            (\A j \in 1..i : ~log[u][j].token) =>
                /\ i <= FREE_DOWNLOADS_ALLOWED =>
                      /\ log[u][i].status = "free_downloads"
                      /\ log[u][i].slot
                      /\ ~log[u][i].session
                /\ i > FREE_DOWNLOADS_ALLOWED =>
                      /\ log[u][i].status = "needs_ad"
                      /\ ~log[u][i].slot
                      /\ log[u][i].session
                      /\ ~log[u][i].file

\* a user made three requests in one window, none of them with a token
C4_Witness ==
    \E u \in Users :
        /\ Len(log[u]) = FREE_DOWNLOADS_ALLOWED + 1
        /\ \A j \in 1..Len(log[u]) : ~log[u][j].token
        /\ \E tok \in DOMAIN user_sessions : user_sessions[tok].user_id = u

\* C5: a session's completed flag becomes true only in a step that finds
\* ad_clicked set and at least WAIT_TIME_SECONDS elapsed since the recorded
\* click time wait_start.  (A session completed and deleted by the same poll
\* shows by the token its owner earns.)
C5_CompletionNeedsClickAndWait ==
    [][\A tok \in DOMAIN user_sessions :
          LET session == user_sessions[tok]
              owner == session.user_id
              earned == IF owner \in DOMAIN user_stats
                        THEN user_stats[owner].tokens_earned
                        ELSE 0
              completes ==
                 /\ ~session.completed
                 /\ \/ tok \in DOMAIN user_sessions' /\ user_sessions'[tok].completed
                    \/ /\ tok \notin DOMAIN user_sessions'
                       /\ owner \in DOMAIN user_stats'
                       /\ user_stats'[owner].tokens_earned > earned
          IN completes =>
                /\ session.ad_clicked
                /\ session.wait_start # None
                /\ now - session.wait_start >= WAIT_TIME_SECONDS]_vars

\* a session was completed by a poll made after the wait
C5_Witness ==
    \E tok \in DOMAIN user_sessions :
        /\ user_sessions[tok].completed
        /\ user_sessions[tok].ad_clicked
        /\ session_hist[tok].grants = 1
        /\ now - user_sessions[tok].wait_start >= WAIT_TIME_SECONDS

\* C6: once the ad link of a session has been opened (at time C), the click is
\* recorded in the session, and a verify poll made WAIT_TIME_SECONDS or more
\* after C finds the session verified (and so grants the token and goes on to
\* send the file).
C6_ClickThenReady ==
    \A tok \in DOMAIN user_sessions \cap DOMAIN click_data :
        /\ user_sessions[tok].ad_clicked
        /\ now >= click_data[tok] + WAIT_TIME_SECONDS =>
              is_verified(check_verification_status(Eng, tok, now))

\* C7: a session first clicked at time C answers a poll with "wait" at every
\* time in [C, C + WAIT_TIME_SECONDS) and with a verified result at every time
\* from C + WAIT_TIME_SECONDS on, whatever polls and further clicks came
\* between.
C7_WaitingThenReady ==
    \A tok \in DOMAIN user_sessions :
        LET C == session_hist[tok].first_click IN
        C # None =>
            IF now < C + WAIT_TIME_SECONDS
            THEN check_verification_status(Eng, tok, now) = "wait"
            ELSE is_verified(check_verification_status(Eng, tok, now))

\* C8: verify_ad_click is idempotent: a second call for a session leaves
\* wait_start at the time of the first.
C8_ReclickKeepsWaitStart ==
    \A tok \in DOMAIN user_sessions :
        session_hist[tok].first_click # None =>
            /\ user_sessions[tok].ad_clicked
            /\ user_sessions[tok].wait_start = session_hist[tok].first_click

\* C9: grant_token runs at most once for a session (tokens_earned rises by at
\* most one per session): exactly when the session completes.  A poll of a
\* completed session is verified ("already") and changes no store.
C9_GrantOncePerSession ==
    \A tok \in DOMAIN user_sessions :
        /\ session_hist[tok].grants <= 1
        /\ session_hist[tok].grants = IF user_sessions[tok].completed THEN 1 ELSE 0
        /\ user_sessions[tok].completed =>
              /\ check_verification_status(Eng, tok, now) = "already"
              /\ check_verification_status_eng(Eng, tok, now) = Eng

\* a completed session, still stored, at a time after the one of its grant
C9_Witness ==
    \E tok \in DOMAIN user_sessions :
        LET owner == user_sessions[tok].user_id IN
        /\ user_sessions[tok].completed
        /\ session_hist[tok].grants = 1
        /\ user_stats[owner].tokens_earned = 1
        /\ now > user_stats[owner].last_ad_watch

\* C10: after a grant at time T (the latest one of the user), has_valid_token
\* is true at every time t with T <= t < T + TOKEN_DURATION_HOURS hours and
\* false at every time from T + TOKEN_DURATION_HOURS hours on.
C10_TokenLifetime ==
    \A u \in DOMAIN user_stats :
        LET T == user_stats[u].last_ad_watch IN
        T # None =>
            /\ now >= T
            /\ has_valid_token(Eng, u, now) <=> now < T + TOKEN_DURATION_HOURS * HOUR

\* the clock has reached the end of a granted token's lifetime, the expired
\* entry still being stored
C10_Witness ==
    \E u \in DOMAIN user_stats :
        /\ user_stats[u].last_ad_watch # None
        /\ u \in DOMAIN user_tokens
        /\ now >= user_stats[u].last_ad_watch + TOKEN_DURATION_HOURS * HOUR

\* C11: a download request of a user whose granted token is still valid is
\* decided token_active and goes to send_material_direct (the file is sent, or
\* the send fails), and the request increments neither free_downloads_used nor
\* total_downloads and creates no session.
C11_TokenRequestsDirect ==
    [][\A u \in Users :
          (/\ Requested(u)
           /\ u \in DOMAIN user_tokens
           /\ now < user_tokens[u].expires_at) =>
              /\ LastEntry(u).status = "token_active"
              /\ sent' \in {File(u, "token"), NoFile}
              /\ sent' = File(u, "token") => \E m \in MaterialIdx : HasFileId(m)
              /\ u \in DOMAIN user_stats /\ u \in DOMAIN user_stats'
              /\ user_stats'[u].free_downloads_used <= user_stats[u].free_downloads_used
              /\ user_stats'[u].total_downloads = user_stats[u].total_downloads
              /\ user_sessions' = user_sessions]_vars

\* a file was sent on the token path to a user whose free quota is used up
C11_Witness ==
    \E u \in DOMAIN user_stats :
        /\ sent = File(u, "token")
        /\ u \in DOMAIN user_tokens
        /\ now < user_tokens[u].expires_at
        /\ user_stats[u].tokens_earned >= 1
        /\ user_stats[u].free_downloads_used = FREE_DOWNLOADS_ALLOWED

\* C12: a download request decided token_active leaves the user's quota record
\* as it was: free_downloads_used, free_downloads_reset_time and tokens_earned
\* keep their values (total_downloads, the download count, may change).
C12_TokenPathFrame ==
    [][\A u \in Users :
          (Requested(u) /\ LastEntry(u).status = "token_active") =>
              /\ u \in DOMAIN user_stats /\ u \in DOMAIN user_stats'
              /\ user_stats'[u].free_downloads_used = user_stats[u].free_downloads_used
              /\ user_stats'[u].free_downloads_reset_time
                    = user_stats[u].free_downloads_reset_time
              /\ user_stats'[u].tokens_earned = user_stats[u].tokens_earned]_vars

\* C13: a request of a user without a valid token, with free_downloads_used =
\* FREE_DOWNLOADS_ALLOWED and the reset deadline reached, first resets the
\* quota (the decision sees free_downloads_used = 0, the deadline becomes now +
\* FREE_DOWNLOAD_RESET_HOURS hours, a new window starts) and is then decided
\* free_downloads, not needs_ad: no session is created.
C13_ResetBeforeDecision ==
    [][\A u \in Users :
          (/\ Requested(u)
           /\ u \in DOMAIN user_stats
           /\ ~(u \in DOMAIN user_tokens /\ now < user_tokens[u].expires_at)
           /\ user_stats[u].free_downloads_used = FREE_DOWNLOADS_ALLOWED
           /\ now >= user_stats[u].free_downloads_reset_time) =>
              /\ log'[u] = << LastEntry(u) >>
              /\ LastEntry(u).used = 0
              /\ LastEntry(u).status = "free_downloads"
              /\ ~LastEntry(u).session
              /\ user_stats'[u].free_downloads_used <= 1
              /\ user_stats'[u].free_downloads_reset_time
                    = now + FREE_DOWNLOAD_RESET_HOURS * HOUR
              /\ user_stats'[u].last_reset = now]_vars

\* a user who had used both slots got a free download in the next window
C13_Witness ==
    \E u \in DOMAIN user_stats :
        /\ user_stats[u].total_downloads = FREE_DOWNLOADS_ALLOWED + 1
        /\ user_stats[u].free_downloads_used = 1
        /\ user_stats[u].last_reset = now
        /\ user_stats[u].last_reset > 1
        /\ Len(log[u]) = 1
        /\ log[u][1].status = "free_downloads"
        /\ ~log[u][1].token

\* C14: of two consecutive calls of reset_free_downloads_if_needed for one user
\* at one time value, the second returns False and leaves the record as the
\* first left it, whether or not the first performed a reset.
C14_ResetOncePerInstant ==
    \A u \in Users :
        LET e1 == reset_free_downloads_if_needed(Eng, u, now) IN
        /\ ~reset_due(e1, u, now)
        /\ reset_free_downloads_if_needed(e1, u, now) = e1

\* a reset is due for a user who has used slots: the first call returns True
C14_Witness ==
    \E u \in DOMAIN user_stats :
        /\ reset_due(Eng, u, now)
        /\ user_stats[u].free_downloads_used > 0
        /\ reset_free_downloads_if_needed(Eng, u, now) # Eng

\* C15: presenting the "use free download" prompt consumes nothing: the
\* request that is decided free_downloads leaves free_downloads_used (as the
\* decision saw it) and total_downloads unchanged; the slot is consumed on
\* confirmation.
C15_PromptConsumesNothing ==
    [][\A u \in Users :
          (Requested(u) /\ LastEntry(u).status = "free_downloads") =>
              /\ user_stats'[u].free_downloads_used = LastEntry(u).used
              /\ user_stats'[u].total_downloads
                    = IF u \in DOMAIN user_stats
                      THEN user_stats[u].total_downloads
                      ELSE 0]_vars

\* C16: cleanup_old_sessions removes exactly the sessions with now - created_at
\* > 3600 s, whatever their flags, keeps every younger session as it is, leaves
\* user_stats and user_tokens unchanged, and a poll of a removed session is
\* answered "Invalid token".
C16_CleanupExact ==
    LET e1 == cleanup_old_sessions(Eng, now) IN
    /\ DOMAIN e1.sessions =
          {tok \in DOMAIN user_sessions :
              now - user_sessions[tok].created_at <= SESSION_MAX_AGE}
    /\ \A tok \in DOMAIN e1.sessions : e1.sessions[tok] = user_sessions[tok]
    /\ e1.stats = user_stats
    /\ e1.tokens = user_tokens
    /\ \A tok \in DOMAIN user_sessions \ DOMAIN e1.sessions :
          check_verification_status(e1, tok, now) = "invalid"

\* a completed session older than an hour is stored: the sweep has work to do
C16_Witness ==
    \E tok \in DOMAIN user_sessions :
        /\ now - user_sessions[tok].created_at > SESSION_MAX_AGE
        /\ user_sessions[tok].completed
        /\ tok \notin DOMAIN cleanup_old_sessions(Eng, now).sessions

\* C18: generate_verification_token never returns a token that is a key of the
\* session store: creating a session adds a key and leaves every stored
\* session as it was.
C18_TokensUnique ==
    [][created' > created =>
          /\ Cardinality(DOMAIN user_sessions') = Cardinality(DOMAIN user_sessions) + 1
          /\ \A tok \in DOMAIN user_sessions :
                /\ tok \in DOMAIN user_sessions'
                /\ user_sessions'[tok] = user_sessions[tok]]_vars

\* C19: a verify poll that reports Ready ends with the session removed from the
\* store, also when the material has no file reference or the delivery fails:
\* no completed session is ever stored between two updates.
C19_ReadyPollDiscardsSession ==
    \A tok \in DOMAIN user_sessions : ~user_sessions[tok].completed

\* C17: abandoned sessions do not accumulate: while the bot keeps handling
\* updates, a stored session that was never completed and is older than the
\* sweep age (3600 s) is eventually removed from the store.
C17_AbandonedSessionsSwept ==
    (\E tok \in DOMAIN user_sessions :
        /\ ~user_sessions[tok].completed
        /\ now - user_sessions[tok].created_at > SESSION_MAX_AGE)
    ~> (\A tok \in DOMAIN user_sessions :
        \/ user_sessions[tok].completed
        \/ now - user_sessions[tok].created_at <= SESSION_MAX_AGE)

\* C20: a poll is answered "invalid" for an unknown token; "not_clicked" while
\* no click is recorded (so for a fresh session); "wait" while the time elapsed
\* since the recorded click is below WAIT_TIME_SECONDS, with remaining =
\* ceiling(WAIT_TIME_SECONDS - elapsed), a value in 1..WAIT_TIME_SECONDS, for
\* every fraction of a second the poll may fall on; verified when the elapsed
\* time is WAIT_TIME_SECONDS or more, or completed is already true.
C20_PollClassification ==
    \A tok \in Tokens :
        LET kind == check_verification_status(Eng, tok, now) IN
        IF tok \notin DOMAIN user_sessions THEN kind = "invalid"
        ELSE LET session == user_sessions[tok]
                 whole == now - session.wait_start
             IN /\ ~session.ad_clicked => kind = "not_clicked"
                /\ (session.ad_clicked /\ ~session.completed
                      /\ whole < WAIT_TIME_SECONDS) =>
                      /\ kind = "wait"
                      /\ wait_remaining(Eng, tok, now) = WAIT_TIME_SECONDS - whole
                      /\ \A f \in 0..(Sub - 1) :
                            LET elapsed == Sub * whole + f
                                left == Sub * WAIT_TIME_SECONDS - elapsed
                            IN /\ remaining(elapsed) = -((-left) \div Sub)
                               /\ remaining(elapsed) \in 1..WAIT_TIME_SECONDS
                /\ (session.ad_clicked
                      /\ (session.completed \/ whole >= WAIT_TIME_SECONDS)) =>
                      is_verified(kind)

\* a session clicked some seconds ago is polled while the wait is running
C20_Witness ==
    \E tok \in DOMAIN user_sessions :
        /\ user_sessions[tok].ad_clicked
        /\ ~user_sessions[tok].completed
        /\ now - user_sessions[tok].wait_start = WAIT_TIME_SECONDS \div 2
        /\ check_verification_status(Eng, tok, now) = "wait"

\* C21: a "verify_download" poll answered "wait", "not_clicked" or "invalid"
\* leaves user_sessions, user_tokens and user_stats as they were, however often
\* it is repeated.
C21_UnreadyPollChangesNothing ==
    [][\/ UNCHANGED <<user_stats, user_tokens, user_sessions>>
       \/ \A p \in acting, tok \in Tokens :
             ~(/\ check_verification_status(Eng, tok, now) \in {"wait", "not_clicked", "invalid"}
               /\ ProcessDownloadVerification(p, tok))]_vars

\* a clicked session is polled in the last second of its wait, a quota record
\* exists, and a token stored nowhere can be polled as well
C21_Witness ==
    /\ StaleToken(1) \notin DOMAIN user_sessions
    /\ DOMAIN user_stats # {}
    /\ \E tok \in DOMAIN user_sessions :
          /\ check_verification_status(Eng, tok, now) = "wait"
          /\ now - user_sessions[tok].wait_start = WAIT_TIME_SECONDS - 1
          /\ ENABLED ProcessDownloadVerification(user_sessions[tok].user_id, tok)

\* C22: grant_token called at time T, in any reachable state and for any user,
\* leaves that user with one token entry that expires at exactly
\* T + TOKEN_DURATION_HOURS hours, whatever entry the user had before (none, an
\* expired one, one still running); the entries of the other users stay.
C22_GrantRenews ==
    \A u \in Users :
        LET e == grant_token(Eng, u, now)
            expiry == now + TOKEN_DURATION_HOURS * HOUR
        IN /\ DOMAIN e.tokens = DOMAIN user_tokens \cup {u}
           /\ e.tokens[u] = [created_at |-> now, expires_at |-> expiry]
           /\ has_valid_token(e, u, expiry - 1)
           /\ ~has_valid_token(e, u, expiry)
           /\ \A v \in DOMAIN user_tokens \ {u} : e.tokens[v] = user_tokens[v]

\* a user holds a token granted earlier that is still running, so that a grant
\* now meets an old entry with time left on it
C22_Witness ==
    \E u \in DOMAIN user_tokens :
        /\ user_tokens[u].created_at < now
        /\ now < user_tokens[u].expires_at
        /\ grant_token(Eng, u, now).tokens[u].expires_at > user_tokens[u].expires_at

\* C23: has_valid_token called in any reachable state, for any user: when it
\* returns False the user has no entry in user_tokens afterwards; when it returns
\* True the user's entry is the one it was.  The other users' entries, the quota
\* records and the sessions are untouched either way.
C23_ExpiredTokenPurged ==
    \A u \in Users :
        LET e == has_valid_token_eng(Eng, u, now) IN
        /\ ~has_valid_token(Eng, u, now) => u \notin DOMAIN e.tokens
        /\ has_valid_token(Eng, u, now) =>
              u \in DOMAIN e.tokens /\ e.tokens[u] = user_tokens[u]
        /\ \A v \in DOMAIN user_tokens \ {u} :
              v \in DOMAIN e.tokens /\ e.tokens[v] = user_tokens[v]
        /\ e.stats = user_stats
        /\ e.sessions = user_sessions

\* an expired token is still stored when its user is looked up
C23_Witness ==
    \E u \in DOMAIN user_tokens :
        /\ now >= user_tokens[u].expires_at
        /\ ~has_valid_token(Eng, u, now)
        /\ u \notin DOMAIN has_valid_token_eng(Eng, u, now).tokens

\* C24: use_free_download called in any reachable state, for any user: with
\* free_downloads_used at FREE_DOWNLOADS_ALLOWED or above it changes nothing and
\* returns the count as it is; below the limit (a user without a record gets a
\* new one first) it adds exactly 1 to free_downloads_used and to
\* total_downloads, changes no other field, and returns the new count.
C24_SlotConsumption ==
    \A u \in Users :
        LET before == get_user_data(Eng, u, now)
            old == before.stats[u]
            e == use_free_download(Eng, u, now)
            count == use_free_download_count(Eng, u, now)
        IN IF old.free_downloads_used >= FREE_DOWNLOADS_ALLOWED
           THEN /\ e = Eng
                /\ count = user_stats[u].free_downloads_used
           ELSE /\ e.stats[u] =
                      [old EXCEPT !.free_downloads_used = @ + 1,
                                  !.total_downloads = @ + 1]
                /\ count = old.free_downloads_used + 1
                /\ e = [before EXCEPT !.stats[u] = e.stats[u]]

\* one user is at the limit while another user still has a free slot
C24_Witness ==
    \E u, v \in DOMAIN user_stats :
        /\ user_stats[u].free_downloads_used = FREE_DOWNLOADS_ALLOWED
        /\ use_free_download(Eng, u, now) = Eng
        /\ user_stats[v].free_downloads_used < FREE_DOWNLOADS_ALLOWED
        /\ use_free_download_count(Eng, v, now) = user_stats[v].free_downloads_used + 1

\* C25: a file sent to a user on the TokenActive path or after a completed
\* verification adds exactly one to that user's total_downloads.  (On the
\* free-slot path the file is counted when the prompt is shown, see C15.)
C25_DeliveriesCounted ==
    [][sent'.via \in {"token", "verify"} =>
          /\ sent'.user \in DOMAIN user_stats'
          /\ user_stats'[sent'.user].total_downloads =
                (IF sent'.user \in DOMAIN user_stats
                 THEN user_stats[sent'.user].total_downloads
                 ELSE 0) + 1]_vars

\* C26: while AD_VERIFICATION_ENABLED is false, a download request goes straight
\* to send_material_direct: the file is sent (or the send fails, or the material
\* has no file), no "Download Now" prompt is shown, and user_stats, user_tokens
\* and user_sessions are left exactly as they were: no slot consumed, no record
\* created or reset, no token evicted, no session created.
C26_AdsOffBypass ==
    [][\/ ad_enabled
       \/ \A u \in acting, m \in MaterialIdx :
             SelectMaterial(u, m) =>
                /\ UNCHANGED <<user_stats, user_tokens, user_sessions, prompt, created>>
                /\ sent' \in send_material_direct(u, m, "ads_off")]_vars

\* with the ad system off, a file has just been sent to a user who has used up
\* the free quota and holds no valid token; no session was created for it
C26_Witness ==
    /\ ~ad_enabled
    /\ sent.via = "ads_off"
    /\ sent.user \in DOMAIN user_stats
    /\ user_stats[sent.user].free_downloads_used = FREE_DOWNLOADS_ALLOWED
    /\ ~has_valid_token(Eng, sent.user, now)
    /\ user_sessions = << >>

\* C27: of two requests of one user that are in flight together, with the ad
\* system on, no token, and one free slot left when the first of them is
\* decided: the first is decided "free_downloads" and consumes the last slot,
\* the second is decided "needs_ad" and consumes nothing, wherever the two
\* coroutines are suspended and resumed.
C27_CheckAndConsumeAtomic ==
    \A j, k \in Decided :
        (/\ tasks[j].user = tasks[k].user
         /\ tasks[j].order < tasks[k].order
         /\ tasks[j].status # "ads_off" /\ tasks[k].status # "ads_off"
         /\ tasks[j].status # "token_active"
         /\ tasks[j].found = FREE_DOWNLOADS_ALLOWED - 1)
        => /\ tasks[j].status = "free_downloads"
           /\ tasks[j].count = FREE_DOWNLOADS_ALLOWED
           /\ tasks[k].status = "needs_ad"
           /\ tasks[k].count = None
           /\ user_stats[tasks[j].user].free_downloads_used = FREE_DOWNLOADS_ALLOWED

\* the request that took the last slot is still suspended at its first await
\* after the decision when a second request of the same user is decided
C27_Witness ==
    \E j, k \in Decided :
        /\ tasks[j].user = tasks[k].user
        /\ tasks[j].found = FREE_DOWNLOADS_ALLOWED - 1
        /\ tasks[j].status = "free_downloads"
        /\ tasks[j].pc = "free_answer"
        /\ tasks[k].order = tasks[j].order + 1
        /\ tasks[k].status = "needs_ad"
        /\ tasks[k].pc = "ad_answer"

\* C28: when a handler has changed user_stats and no write of user_stats.json
\* has failed, the document holds the store as it is in memory.
C28_PersistedAtEachMutation ==
    [][(running /\ ~Restart /\ user_stats' # user_stats) =>
          \/ disk'.kind = "truncated"
          \/ disk'.kind = "valid" /\ disk'.doc = dumped(user_stats')]_vars

\* C29: a handler whose write of user_stats.json fails ends with the stores the
\* decision it took calls for: select_material has consumed the slot and shows
\* the prompt, /reset has reset the record, a completed verification has
\* granted the token and discarded the session.
C29_FailedSaveKeepsDecision ==
    [][\/ disk'.kind # "truncated"
       \/ /\ \A u \in acting, m \in MaterialIdx :
                (/\ ad_enabled
                 /\ get_user_status(Eng, u, now) = "free_downloads"
                 /\ SelectMaterial(u, m))
                => /\ Eng' = use_free_download(get_user_status_eng(Eng, u, now), u, now)
                   /\ prompt'[u] = m
          /\ \A u \in acting :
                (u \in DOMAIN user_stats /\ ResetUser(u))
                => /\ user_stats'[u].free_downloads_used = 0
                   /\ user_stats'[u].free_downloads_reset_time = now + RESET_USER_HOURS * HOUR
          /\ \A p \in acting, tok \in DOMAIN user_sessions :
                (/\ check_verification_status(Eng, tok, now) = "complete"
                 /\ HasFileId(user_sessions[tok].material_index)
                 /\ ProcessDownloadVerification(p, tok))
                => /\ tok \notin DOMAIN user_sessions'
                   /\ has_valid_token(Eng', user_sessions[tok].user_id, now)
                   /\ user_stats'[user_sessions[tok].user_id].tokens_earned =
                         user_stats[user_sessions[tok].user_id].tokens_earned + 1]_vars

\* the last write failed part-way, and the user's second free slot is consumed
\* and its prompt shown all the same
C29_Witness ==
    /\ running
    /\ disk.kind = "truncated"
    /\ \E u \in DOMAIN user_stats :
          /\ user_stats[u].free_downloads_used = FREE_DOWNLOADS_ALLOWED
          /\ user_stats[u].total_downloads = FREE_DOWNLOADS_ALLOWED
          /\ prompt[u] # -1

\* C30: whatever user_stats.json holds, load_user_stats returns a store and the
\* process comes up: the empty store when the file is missing or damaged, and
\* for a document save_user_stats wrote the store that was saved, under the
\* integer user ids.
C30_StartupLoadsOrStartsEmpty ==
    /\ ~load_user_stats(disk).crashed
    /\ disk.kind # "valid" => load_user_stats(disk).stats = << >>
    /\ \A d \in save_user_stats(user_stats, disk) :
          d.kind = "valid" =>
             /\ load_user_stats(d).stats = user_stats
             /\ DOMAIN load_user_stats(d).stats \subseteq Users

\* ------------------------------------------------------ github_storage.py
\* GitHubStorage._get_initial_data: one material, with a file_id
get_initial_data == Catalog(<<TRUE>>)

\* GitHubStorage._count_materials walks branch -> semester -> subject and
\* raises AttributeError on the statistics of UserTracker, whose
\* "total_interactions" is a number
count_materials_raises(data) == data.is # "catalog"

\* save_data without its first statement
save_local_data_skipped(s, data) == s

\* GitHubStorage._save_local_data: always the file study_materials.json,
\* whatever file_path says.  Where open() fails the exception is caught and the
\* file stays as it was.
save_local_data(s, data) ==
    IF s.writable THEN [s EXCEPT !.local = data] ELSE s

\* GitHubStorage._load_local_data: the file study_materials.json, or the
\* initial data where it does not exist
load_local_data(s) ==
    IF s.local.is = "missing" THEN get_initial_data ELSE s.local

\* What the repository does with one attempt of save_data.
\*   get: "answers" (200 or 404, as the file exists or not), "error" (any other
\*        status), "raises" (no connection, timeout)
\*   put: "ok" (200/201, the file is written), "error" (any other status),
\*        "raises" (no connection), "lost_reply" (the file is written and the
\*        reply times out); "none" where the GET did not answer
SaveOutcomes ==
    [get : {"error", "raises"}, put : {"none"}]
    \cup [get : {"answers"}, put : {"ok", "error", "raises", "lost_reply"}]

\* The loop of save_data from attempt on: every result the answers of the
\* repository can lead to.  c counts the requests sent.
RECURSIVE save_attempts(_, _, _, _, _)
save_attempts(s, data, t, attempt, c) ==
    IF attempt >= max_retries_save
    THEN {[s |-> s, c |-> [c EXCEPT !.ret = FALSE]]}
    ELSE LET got == [c EXCEPT !.gets = @ + 1]
             put == [got EXCEPT !.puts = @ + 1]
             written == [s EXCEPT !.remote[s.file_path] = data]
             after(o) ==
                 CASE o.get # "answers" ->
                         save_attempts(s, data, t, attempt + 1, got)
                   [] o.get = "answers" /\ count_materials_raises(data) ->
                         save_attempts(s, data, t, attempt + 1, got)
                   [] OTHER ->
                         CASE o.put = "ok" ->
                                 {[s |-> [written EXCEPT !.last_sync_time = t],
                                   c |-> [put EXCEPT !.ret = TRUE]]}
                           [] o.put = "error" ->
                                 IF attempt < max_retries_save - 1
                                 THEN save_attempts(s, data, t, attempt + 1, put)
                                 ELSE {[s |-> s, c |-> [put EXCEPT !.ret = FALSE]]}
                           [] o.put = "raises" ->
                                 save_attempts(s, data, t, attempt + 1, put)
                           [] OTHER ->
                                 save_attempts(written, data, t, attempt + 1, put)
         IN UNION {after(o) : o \in SaveOutcomes}

\* GitHubStorage.save_data(data) at time t: the possible results, each the
\* storage afterwards and the record of the call
save_data(s, data, t) ==
    LET s1 == save_local_data(s, data)
        c0 == Call("save_data", data, FALSE, 0, 0)
    IN IF t - s1.last_sync_time < sync_interval
       THEN {[s |-> s1, c |-> [c0 EXCEPT !.ret = TRUE]]}
       ELSE save_attempts(s1, data, t, 0, c0)

\* What the repository does with one attempt of load_data: "answers" (200 with
\* the file, or 404 where there is none), "error", "raises"
LoadOutcomes == {"answers", "error", "raises"}

RECURSIVE load_attempts(_, _, _)
load_attempts(s, attempt, c) ==
    IF attempt >= max_retries_load
    THEN {[c EXCEPT !.data = load_local_data(s)]}
    ELSE LET got == [c EXCEPT !.gets = @ + 1]
             after(o) ==
                 CASE o = "answers" /\ s.remote[s.file_path].is # "missing" ->
                         {[got EXCEPT !.data = s.remote[s.file_path], !.ret = TRUE]}
                   [] o = "answers" ->
                         {[got EXCEPT !.data = load_local_data(s)]}
                   [] OTHER ->
                         load_attempts(s, attempt + 1, got)
         IN UNION {after(o) : o \in LoadOutcomes}

\* GitHubStorage.load_data(): the possible call records; each holds the data
\* returned, and in ret whether it came from the repository
load_data(s) == load_attempts(s, 0, Call("load_data", Missing, FALSE, 0, 0))

\* save_materials(materials)
save_materials(s, m, t) ==
    IF s.configured
    THEN save_data(s, Catalog(m), t)
    ELSE {[s |-> save_local_data(s, Catalog(m)),
           c |-> Call("save_local", Catalog(m), FALSE, 0, 0)]}

\* ------------------------------------------------------- user_tracking.py
\* UserTracker._load_user_stats
load_user_tracker_stats(s) ==
    IF ~s.configured
    THEN {Call("none", Stats(EmptyStats), FALSE, 0, 0)}
    ELSE load_data([s EXCEPT !.file_path = "user_stats.json"])

\* UserTracker._save_user_stats: file_path is switched for the call and put back
save_user_tracker_stats(s, st, t) ==
    IF ~s.configured
    THEN {[s |-> s, c |-> Call("none", st, FALSE, 0, 0)]}
    ELSE LET original_path == s.file_path IN
         {[s |-> [r.s EXCEPT !.file_path = original_path], c |-> r.c] :
             r \in save_data([s EXCEPT !.file_path = "user_stats.json"], st, t)}

\* the update of user_stats in UserTracker.track_user
tracked(st, u) ==
    LET k == str(u)
        n == IF k \in DOMAIN st.unique_users THEN st.unique_users[k] + 1 ELSE 1
    IN [unique_users |-> Put(st.unique_users, k, n),
        total_interactions |-> st.total_interactions + 1]

\* ------------------------------------------------- uploads (src/botad.py)
is_admin(u) == u \in ADMIN_IDS
\* upload access for everybody
is_team_member_anyone(u) == TRUE
is_team_member(u) == u \in TEAM_MEMBER_IDS \/ u \in ADMIN_IDS

\* valid_branches
valid_branches == {"CSE", "ECE", "EEE", "Mech", "Civil"}

\* The details message after text.split(',') and strip(): branch, semester,
\* subject, title, keywords.  One message that passes every check, and the
\* messages that differ from it in one place.
GoodDetails == <<"CSE", <<"4">>, "DBMS", "DBMS Module 3 Notes", "dbms">>
Details ==
    {GoodDetails,
     SubSeq(GoodDetails, 1, 4),
     [GoodDetails EXCEPT ![1] = "IT"],
     [GoodDetails EXCEPT ![2] = <<"0">>],
     [GoodDetails EXCEPT ![2] = <<"8">>],
     [GoodDetails EXCEPT ![2] = <<"9">>],
     [GoodDetails EXCEPT ![2] = <<"1", "0">>],
     [GoodDetails EXCEPT ![2] = <<"x">>],
     [GoodDetails EXCEPT ![3] = ""],
     [GoodDetails EXCEPT ![4] = ""]}

\* the checks of handle_team_upload_text and handle_admin_text that end in
\* ValueError
details_accepted(parts) ==
    /\ Len(parts) >= 5
    /\ parts[1] \in valid_branches
    /\ is_int_key(parts[2])
    /\ 1 <= int_of_key(parts[2])
    /\ int_of_key(parts[2]) <= 8
    /\ parts[3] # ""
    /\ parts[4] # ""

\* The document of a message: extension of its name and size in MB, or
\* NoDocument for a message without one.
Documents ==
    {[ext |-> ".pdf", mb |-> 1], [ext |-> ".docx", mb |-> 1], [ext |-> ".exe", mb |-> 1],
     [ext |-> ".pdf", mb |-> 15], [ext |-> ".pdf", mb |-> 25]}
NoDocument == [ext |-> "", mb |-> 0]
allowed_types == {".pdf", ".doc", ".docx", ".txt", ".jpg", ".png"}
TEAM_MAX_MB == 20
ADMIN_MAX_MB == 10

\* what the handlers of the storage behaviours leave alone
DownloadsUnchanged ==
    UNCHANGED <<acting, user_stats, user_tokens, user_sessions, click_data, prompt,
                created, resets, free_sent, session_hist, log, disk, running, tasks,
                ad_verification>>

\* handle_team_upload_file
HandleTeamUploadFile(u, doc) ==
    /\ user_data' = IF /\ is_team_member(u)
                       /\ doc # NoDocument
                       /\ doc.ext \in allowed_types
                       /\ doc.mb <= TEAM_MAX_MB
                    THEN [user_data EXCEPT ![u] = TRUE]
                    ELSE user_data
    /\ sent' = NoFile
    /\ DownloadsUnchanged
    /\ UNCHANGED <<ticks, materials, now, ad_enabled, storage, call, user_tracker>>

\* handle_admin_file
HandleAdminFile(u, doc) ==
    /\ user_data' = IF /\ is_admin(u)
                       /\ doc # NoDocument
                       /\ doc.ext = ".pdf"
                       /\ doc.mb <= ADMIN_MAX_MB
                    THEN [user_data EXCEPT ![u] = TRUE]
                    ELSE user_data
    /\ sent' = NoFile
    /\ DownloadsUnchanged
    /\ UNCHANGED <<ticks, materials, now, ad_enabled, storage, call, user_tracker>>

\* The body both text handlers share once the sender passed their check: the
\* material is appended, the catalog saved, the upload data cleared.
upload_text(u, parts) ==
    IF user_data[u] /\ details_accepted(parts)
    THEN /\ Len(materials) < MaxMaterials
         /\ materials' = Append(materials, TRUE)
         /\ \E r \in save_materials(storage, Append(materials, TRUE), now) :
               /\ storage' = r.s
               /\ call' = r.c
         /\ user_data' = [user_data EXCEPT ![u] = FALSE]
    ELSE UNCHANGED <<materials, storage, call, user_data>>

\* handle_team_upload_text
HandleTeamUploadText(u, parts) ==
    /\ IF is_team_member(u)
       THEN upload_text(u, parts)
       ELSE UNCHANGED <<materials, storage, call, user_data>>
    /\ sent' = NoFile
    /\ DownloadsUnchanged
    /\ UNCHANGED <<ticks, now, ad_enabled, user_tracker>>

\* handle_admin_text
HandleAdminText(u, parts) ==
    /\ IF is_admin(u)
       THEN upload_text(u, parts)
       ELSE UNCHANGED <<materials, storage, call, user_data>>
    /\ sent' = NoFile
    /\ DownloadsUnchanged
    /\ UNCHANGED <<ticks, now, ad_enabled, user_tracker>>

\* force_save
ForceSave(u) ==
    /\ IF is_admin(u)
       THEN \E r \in save_materials(storage, materials, now) :
               /\ storage' = r.s
               /\ call' = r.c
       ELSE UNCHANGED <<storage, call>>
    /\ sent' = NoFile
    /\ DownloadsUnchanged
    /\ UNCHANGED <<ticks, materials, now, ad_enabled, user_tracker, user_data>>

\* init_user_tracker(github_storage): UserTracker.__init__
InitUserTracker ==
    /\ user_tracker.is = "missing"
    /\ \E c \in load_user_tracker_stats(storage) :
          /\ user_tracker' = c.data
          /\ call' = c
    /\ sent' = NoFile
    /\ DownloadsUnchanged
    /\ UNCHANGED <<ticks, materials, now, ad_enabled, storage, user_data>>

\* track_user_interaction -> UserTracker.track_user.  Where user_stats is not
\* the statistics document (load_data fell back to the local catalog),
\* user_stats["unique_users"] raises KeyError, which is caught.
TrackUser(u) ==
    /\ user_tracker.is # "missing"
    /\ IF user_tracker.is = "user_stats"
       THEN LET st == Stats(tracked(user_tracker.stats, u)) IN
            /\ user_tracker.stats.total_interactions < MaxInteractions
            /\ user_tracker' = st
            /\ \E r \in save_user_tracker_stats(storage, st, now) :
                  /\ storage' = r.s
                  /\ call' = r.c
       ELSE UNCHANGED <<user_tracker, storage, call>>
    /\ sent' = NoFile
    /\ DownloadsUnchanged
    /\ UNCHANGED <<ticks, materials, now, ad_enabled, user_data>>

\* time passes between two updates
StorageWait(d) ==
    /\ ticks < MaxStorageWaits
    /\ ticks' = ticks + 1
    /\ now' = now + d
    /\ sent' = NoFile
    /\ DownloadsUnchanged
    /\ UNCHANGED <<materials, ad_enabled, storage, call, user_tracker, user_data>>

\* The bot has started: the catalog was loaded from the local file or is the
\* initial data, github_storage is configured or not, the working directory can
\* be written or not, the repository holds the catalog or not and a
\* user_stats.json somebody put there or none.
InitStorage ==
    /\ materials = <<TRUE>>
    /\ acting = Members
    /\ now = StorageStart
    /\ ticks = 0
    /\ ad_enabled = TRUE
    /\ user_stats = << >>
    /\ user_tokens = << >>
    /\ user_sessions = << >>
    /\ ad_verification = << >>
    /\ click_data = << >>
    /\ prompt = [u \in Users |-> -1]
    /\ created = 0
    /\ resets = 0
    /\ sent = NoFile
    /\ free_sent = [u \in Users |-> 0]
    /\ session_hist = << >>
    /\ log = [u \in Users |-> << >>]
    /\ disk = Document(FALSE, "missing", << >>)
    /\ running = TRUE
    /\ tasks = << >>
    /\ \E configured \in BOOLEAN, writable \in BOOLEAN,
          local \in {Missing, Catalog(materials)},
          catalog \in {Missing, Catalog(materials)},
          stats \in {Missing, Stats(EmptyStats)} :
          storage = GitHubStorage(configured, writable, local,
                                  [p \in Paths |-> IF p = "study_materials.json"
                                                   THEN catalog ELSE stats])
    /\ call = NoCall
    /\ user_tracker = NoTracker
    /\ user_data = [u \in Members |-> FALSE]

NextStorage ==
    \/ \E d \in {1, sync_interval} : StorageWait(d)
    \/ \E u \in acting, doc \in Documents \cup {NoDocument} : HandleTeamUploadFile(u, doc)
    \/ \E u \in acting, doc \in Documents \cup {NoDocument} : HandleAdminFile(u, doc)
    \/ \E u \in acting, parts \in Details : HandleTeamUploadText(u, parts)
    \/ \E u \in acting, parts \in Details : HandleAdminText(u, parts)
    \/ \E u \in acting : ForceSave(u)
    \/ InitUserTracker
    \/ \E u \in acting : TrackUser(u)
    \/ \E u \in acting : ToggleAds(u)

SpecStorage == InitStorage /\ [][NextStorage]_vars

\* C31: a "verify_download" event whose token is stored nowhere, or belongs to
\* a session that has expired (older than SESSION_MAX_AGE, what
\* cleanup_old_sessions calls expired), is answered "invalid" and leaves
\* user_stats, user_tokens and user_sessions unchanged.
C31_UnknownOrExpiredIsInvalid ==
    \A tok \in Tokens :
        (\/ tok \notin DOMAIN user_sessions
         \/ now - user_sessions[tok].created_at > SESSION_MAX_AGE)
        => /\ check_verification_status(Eng, tok, now) = "invalid"
           /\ check_verification_status_eng(Eng, tok, now) = Eng

\* C33: for every token of a stored session, "Check Status" and "Verify &
\* Download" agree: check-status does not report the session unknown or not
\* clicked when verify-download finds it stored and clicked, and when
\* check-status reports the verification complete, verify-download delivers.
C33_CheckStatusReadsSameSession ==
    \A tok \in DOMAIN user_sessions :
        LET reported == ad_check_verification_status(ad_verification, tok, now)
            polled == check_verification_status(Eng, tok, now)
        IN /\ user_sessions[tok].ad_clicked => reported \notin {"invalid", "not_clicked"}
           /\ is_verified(reported) => is_verified(polled)

\* C37: a "verify_download" event sent by a user other than the one the session
\* was created for sends no file and grants no token.
C37_OnlyOwnerDrivesSession ==
    [][\/ sent' = NoFile /\ user_tokens' = user_tokens
       \/ \A p \in acting, tok \in DOMAIN user_sessions :
             ~(/\ p # user_sessions[tok].user_id
               /\ ProcessDownloadVerification(p, tok))]_vars

C34_TrackingKeepsCatalog ==
    [][\/ /\ storage'.local = storage.local
          /\ storage'.file_path = storage.file_path
       \/ \A u \in acting : ~TrackUser(u)]_vars

\* C35: whenever save_data has returned True, the document of the repository
\* under file_path equals the data it was passed; in particular data saved less
\* than sync_interval after the last successful sync is not reported as synced
\* without having reached the repository.
C35_TrueMeansSynced ==
    (call.op = "save_data" /\ call.ret) => storage.remote[storage.file_path] = call.data

\* C36: retries are bounded.  Whatever the repository answers, save_data sends
\* at most 2 PUT requests and returns True or False, and last_sync_time changes
\* only in a call whose PUT was accepted; load_data sends at most 3 GET
\* requests, returns the local data (or the initial data) after the first GET
\* where that is answered 404, and returns them after the last attempt where
\* none succeeded.  Checked for the call that was made last and for every call
\* that could be made next.
C36_RetriesBounded ==
    /\ call.op = "save_data" => call.puts <= 2 /\ call.gets <= 2
    /\ call.op = "load_data" => call.gets <= 3
    /\ \A p \in Paths, data \in {Catalog(materials), Stats(EmptyStats)} :
          LET s == [storage EXCEPT !.file_path = p] IN
          \A r \in save_data(s, data, now) :
             /\ r.c.puts <= 2
             /\ r.c.ret \in BOOLEAN
             /\ r.s.last_sync_time # s.last_sync_time
                   => /\ r.c.ret
                      /\ r.c.puts >= 1
                      /\ r.s.last_sync_time = now
                      /\ r.s.remote[p] = data
             /\ ~r.c.ret => r.s.last_sync_time = s.last_sync_time
    /\ \A p \in Paths :
          LET s == [storage EXCEPT !.file_path = p] IN
          /\ \A c \in load_data(s) :
                /\ c.gets >= 1
                /\ c.gets <= 3
                /\ c.ret => c.data = s.remote[p]
                /\ ~c.ret => c.data = load_local_data(s)
                /\ (~c.ret /\ c.gets < 3) => s.remote[p].is = "missing"
          /\ s.remote[p].is = "missing"
                => \E c \in load_data(s) : c.gets = 1 /\ c.data = load_local_data(s)

\* load_data sent three GETs, none succeeded, and it returned the local data
C36_Witness ==
    /\ call.op = "load_data"
    /\ call.gets = 3
    /\ ~call.ret
    /\ call.data = load_local_data(storage)
    /\ storage.last_sync_time = 0

\* C38: the catalog changes only by one material appended in a step of
\* handle_team_upload_text or handle_admin_text for a user in ADMIN_IDS or
\* TEAM_MEMBER_IDS who has sent a file before and now sends details of at
\* least five fields with a valid branch and a semester in 1..8; every other
\* step leaves the catalog unchanged.  AD_VERIFICATION_ENABLED changes only in
\* a toggle_ads step of a user in ADMIN_IDS.
C38_OnlyPrivilegedChange ==
    [][\/ materials' = materials /\ ad_enabled' = ad_enabled
       \/ /\ materials' # materials
                => \E u \in ADMIN_IDS \cup TEAM_MEMBER_IDS, parts \in Details :
                      /\ user_data[u]
                      /\ Len(parts) >= 5
                      /\ parts[1] \in {"CSE", "ECE", "EEE", "Mech", "Civil"}
                      /\ parts[2] \in {str(n) : n \in 1..8}
                      /\ materials' = Append(materials, TRUE)
                      /\ HandleTeamUploadText(u, parts) \/ HandleAdminText(u, parts)
          /\ ad_enabled' # ad_enabled => \E u \in ADMIN_IDS : ToggleAds(u)]_vars

\* a second material was uploaded and saved, and the ads were switched off
C38_Witness ==
    /\ materials = <<TRUE, TRUE>>
    /\ storage.local = Catalog(materials)
    /\ ~ad_enabled
====
